---- MODULE Spec2Model ----
(***************************************************************************)
(* VitaFin (my-finance-tracker): the client-side handlers that keep        *)
(* account balances, balance snapshots, expenses and goal plans in step    *)
(* with the hosted row store.  Every backend call is a request that the    *)
(* store either applies or rejects (the `ok` inputs of the actions).       *)
(***************************************************************************)
EXTENDS Integers, Sequences, FiniteSets, TLC

\* ---------------------------------------------------------------- bounds
MaxAmt == 2        \* amounts typed into a form: 1, the largest amount MaxAmt, and -1
MaxOps == 2        \* handlers started in one behaviour (Accounts view, sessions)
MaxGoalOps == 2    \* handlers started in one behaviour of the Goals view
MaxTxOps == 2      \* handlers started in one behaviour of the Transactions view
MaxCsvRows == 2    \* rows of an imported CSV file
MaxRecOps == 2     \* Mark paid clicks and actual-amount edits in one behaviour
MaxTemplates == 1  \* recurring templates created in one behaviour
MaxNav == 3        \* month-navigation clicks in one behaviour
MaxSnaps == 3      \* account_balances rows the Cash Flow view loads
MaxBudgetOps == 2  \* Budget handlers (save, delete, month change) in one behaviour
MaxUndoClicks == 2 \* clicks on Undo in one behaviour
MaxFormOps == 2    \* saveGoal, closeGoal and saveContrib calls in one behaviour

\* ---------------------------------------------------------------- universe
Acct == {"A", "B"}
Amts == {1, MaxAmt, -1}
InitBal == [a \in Acct |-> IF a = "A" THEN 5 ELSE 3]

VARIABLES
    dbBalance,      \* accounts.balance, the stored balance of every account row
    snaps,          \* account_balances rows in insertion order: <<account, balance>>
    accView,        \* `accounts` state of the Accounts view (the client's cache)
    xfer,           \* the Quick Transfer handler: its position and captured values
    refreshPending, \* a refreshAccounts() call was issued and has not resolved
    wlog,           \* the backend writes issued by the handler that ran last
    nOps,           \* handlers started so far
    cache,          \* per browser session: the `accounts` state of its mounted view
    inflight,       \* per browser session: the balance write its handler has issued
    arrivals,       \* the balance writes the store applied, in arrival order
    dbGoals,        \* goals rows: target_amount, target_date, monthly_contribution
    dbContribs,     \* goal_contributions rows, ordered by date
    goals,          \* `goals` state of the Goals view
    contribs,       \* `contribs` state of the Goals view
    today,          \* the local calendar date, new Date()
    tzWest,         \* the browser's time zone is west of Greenwich
    lastOp,         \* what the Goals handler that ran last did
    ledger,         \* per goal: the signed amounts of the movements saved so far, summed
    nGoalOps,       \* Goals handlers started so far
    dbExpenses,     \* expenses rows
    dbCategories,   \* categories rows (their names)
    data,           \* `data` state of the Transactions view: the expenses it lists
    txAccounts,     \* `accounts` state of the Transactions view
    selectedRows,   \* ids of the rows ticked in the table
    undoStack,      \* the expenses the last delete removed
    showUndo,       \* the Undo toast is displayed
    nextId,         \* the id the store gives to the next inserted expense
    txLast,         \* what the Transactions handler that ran last did
    nTxOps,         \* Transactions handlers started so far
    txMonth,        \* `month` state of the Transactions view (0 = January)
    txYear,         \* `year` state of the Transactions view
    globalFilter,   \* `globalFilter` state of the Transactions view: the search text
    undoCalls,      \* the undoDelete calls: captured values and position of each
    dbPayments,     \* recurring_payments rows, by id
    payments,       \* `payments` state of the Recurring view
    recAccounts,    \* `accounts` state of the Recurring view
    paidExpenses,   \* the expenses rows inserted by markPaid, in insertion order
    mp,             \* the markPaid calls: position and captured values of each
    nRecOps,        \* Recurring handlers started so far
    dbRecurrings,   \* recurrings rows (templates), by id
    recurrings,     \* `recurrings` state of the Recurring view
    recMonth,       \* `month` state of the Recurring view (0 = January)
    nTemplates,     \* templates created so far
    nNav,           \* month-navigation clicks so far
    cfSnaps,        \* `snaps` state of the Cash Flow view: rows ordered by recorded_at
    cfGroupBy,      \* `groupBy` state of the Cash Flow view
    cfBase,         \* `baseCurrency` state of the Cash Flow view
    cfZone,         \* the browser's time zone: west of, at, or east of Greenwich
    dbBudgetItems,  \* budget_items rows, ordered by created_at
    budgetItems,    \* `budgetItems` state of the Budget view
    bgExpenses,     \* `expenses` state of the Budget view
    bgAccounts,     \* `accounts` state of the Budget view: the ids it holds
    bgMonth,        \* `month` state of the Budget view (0 = January)
    bgLoading,      \* the load effect of the Budget view has not resolved
    nBudgetOps,     \* Budget handlers started so far
    selected,       \* `selected` state of Welcome
    loading,        \* `loading` state of Welcome
    email,          \* `email` state of Welcome
    internalSelected, \* `internalSelected` state of Sidebar
    collapsed,      \* `collapsed` state of Sidebar
    isLoggingOut,   \* `isLoggingOut` state of Sidebar
    showGoalModal,  \* `showGoalModal` state of the Goals view
    editingGoal,    \* `editingGoal` state of the Goals view: null or a goal's id
    showContribModal, \* `showContribModal` state of the Goals view
    selectedGoal,   \* `selectedGoal` state of the Goals view: null or a goal's id
    closedGoals,    \* the goals whose local row carries a closed_at
    dbClosedGoals,  \* the goals whose stored row carries a closed_at
    goalCalls,      \* the backend calls issued by the Goals form handler that ran last
    goalAlerts,     \* the alerts displayed by the Goals form handler that ran last
    formLast,       \* the Goals form handler that ran last and how it ended
    nFormOps,       \* Goals form handlers started so far
    dashMonth,      \* `month` state of the Dashboard (0 = January)
    dashYear,       \* `year` state of the Dashboard
    recYear,        \* `year` state of the Recurring view
    bgYear          \* `year` state of the Budget view

vars == <<dbBalance, snaps, accView, xfer, refreshPending, wlog, nOps,
          cache, inflight, arrivals,
          dbGoals, dbContribs, goals, contribs, today, tzWest, lastOp, ledger, nGoalOps,
          dbExpenses, dbCategories, data, txAccounts, selectedRows, undoStack, showUndo,
          nextId, txLast, nTxOps, txMonth, txYear, globalFilter, undoCalls,
          dbPayments, payments, recAccounts, paidExpenses, mp, nRecOps,
          dbRecurrings, recurrings, recMonth, nTemplates, nNav,
          cfSnaps, cfGroupBy, cfBase, cfZone,
          dbBudgetItems, budgetItems, bgExpenses, bgAccounts, bgMonth, bgLoading, nBudgetOps,
          selected, loading, email, internalSelected, collapsed, isLoggingOut,
          showGoalModal, editingGoal, showContribModal, selectedGoal, closedGoals,
          dbClosedGoals, goalCalls, goalAlerts, formLast, nFormOps,
          dashMonth, dashYear, recYear, bgYear>>
accountsVars == <<dbBalance, snaps, accView, xfer, refreshPending, wlog, nOps>>
sessionVars == <<cache, inflight, arrivals>>
goalVars == <<dbGoals, dbContribs, goals, contribs, today, tzWest, lastOp, ledger, nGoalOps>>
txVars == <<dbExpenses, dbCategories, data, txAccounts, selectedRows, undoStack, showUndo,
           nextId, txLast, nTxOps, txMonth, txYear, globalFilter, undoCalls>>
recVars == <<dbPayments, payments, recAccounts, paidExpenses, mp, nRecOps,
            dbRecurrings, recurrings, recMonth, nTemplates, nNav>>
cfVars == <<cfSnaps, cfGroupBy, cfBase, cfZone>>
budgetVars == <<dbBudgetItems, budgetItems, bgExpenses, bgAccounts, bgMonth, bgLoading, nBudgetOps>>
pageVars == <<selected, loading, email, internalSelected, collapsed, isLoggingOut>>
formVars == <<showGoalModal, editingGoal, showContribModal, selectedGoal, closedGoals,
              dbClosedGoals, goalCalls, goalAlerts, formLast, nFormOps>>
\* the month and year states the handlers of the other sections never assign
navVars == <<dashMonth, dashYear, recYear, bgYear>>
\* the variables a view's handlers never touch
offAccounts == <<sessionVars, goalVars, txVars, recVars, cfVars, budgetVars, pageVars, formVars, navVars>>
offSessions == <<accView, xfer, refreshPending, wlog, goalVars, txVars, recVars, cfVars, budgetVars, pageVars, formVars, navVars>>
offGoals == <<accountsVars, sessionVars, txVars, recVars, cfVars, budgetVars, pageVars, formVars, navVars>>
offTx == <<accView, xfer, refreshPending, wlog, nOps, sessionVars, goalVars, recVars, cfVars, budgetVars, pageVars, formVars, navVars>>
offRec == <<accView, xfer, refreshPending, wlog, nOps, sessionVars, goalVars, txVars, cfVars, budgetVars, pageVars, formVars, navVars>>
offBudget == <<accountsVars, sessionVars, goalVars, txVars, recVars, cfVars, pageVars, formVars, navVars>>
offPage == <<accountsVars, sessionVars, goalVars, txVars, recVars, cfVars, budgetVars, formVars, navVars>>
offForms == <<accountsVars, sessionVars, txVars, recVars, cfVars, budgetVars, pageVars, navVars>>
offCf == <<accountsVars, sessionVars, goalVars, txVars, recVars, budgetVars, pageVars, formVars, navVars>>

\* ================================================================ sessions
\* Two browser sessions of the same user against the one accounts table.

Sessions == {"s1", "s2"}
Kinds == {"expense", "delete", "paid", "transfer"}
NoWrite == [pc |-> "idle", kind |-> "expense", acct |-> "A", amt |-> 0, base |-> 0, value |-> 0]

\* the absolute balance a handler derives from its cached account row:
\*   addExpenseToDB   (acc.balance || 0) - inserted.amount
\*   deleteExpense    (acc.balance || 0) + exp.amount
\*   markPaid         (acc.balance || 0) - amt
\*   Quick Transfer   (to.balance || 0) + amt
NewBalance(kind, cached, amt) ==
    IF kind \in {"expense", "paid"} THEN cached - amt ELSE cached + amt

\* the handler reads its cached row and sends update({ balance: newBalance }).eq("id", acc.id)
IssueWrite(s, kind, a, amt) ==
    /\ inflight[s].pc = "idle"
    /\ nOps < MaxOps
    /\ amt # 0
    /\ inflight' = [inflight EXCEPT ![s] =
            [pc |-> "sent", kind |-> kind, acct |-> a, amt |-> amt,
             base |-> cache[s][a], value |-> NewBalance(kind, cache[s][a], amt)]]
    /\ nOps' = nOps + 1
    /\ UNCHANGED <<dbBalance, snaps, cache, arrivals, offSessions>>

\* A store that merges the change into the balance it holds.
WriteArrives_merge(s, ok) ==
    /\ inflight[s].pc = "sent"
    /\ LET w == inflight[s]
           v == dbBalance[w.acct] + (w.value - w.base) IN
        /\ dbBalance' = IF ok THEN [dbBalance EXCEPT ![w.acct] = v] ELSE dbBalance
        /\ snaps' = IF ok /\ w.kind # "delete" THEN Append(snaps, <<w.acct, v>>) ELSE snaps
        /\ arrivals' = IF ok THEN Append(arrivals, [by |-> s, acct |-> w.acct, base |-> w.base,
                                                     amt |-> w.amt, kind |-> w.kind, value |-> w.value])
                              ELSE arrivals
        /\ cache' = IF ~ok THEN cache
                     ELSE IF w.kind = "transfer" THEN [cache EXCEPT ![s] = dbBalance']
                     ELSE [cache EXCEPT ![s][w.acct] = w.value]
    /\ inflight' = [inflight EXCEPT ![s] = NoWrite]
    /\ UNCHANGED <<nOps, offSessions>>

\* The update reaches the store: the row's balance is overwritten with the value
\* sent, whatever the row holds; on success the handler inserts the snapshot
\* (deleteExpense inserts none) and updates its own cached row (the Accounts view
\* re-reads all rows instead).  On an error the handler only logs it.
WriteArrives(s, ok) ==
    /\ inflight[s].pc = "sent"
    /\ LET w == inflight[s] IN
        /\ dbBalance' = IF ok THEN [dbBalance EXCEPT ![w.acct] = w.value] ELSE dbBalance
        /\ snaps' = IF ok /\ w.kind # "delete" THEN Append(snaps, <<w.acct, w.value>>) ELSE snaps
        /\ arrivals' = IF ok THEN Append(arrivals, [by |-> s, acct |-> w.acct, base |-> w.base,
                                                     amt |-> w.amt, kind |-> w.kind, value |-> w.value])
                              ELSE arrivals
        /\ cache' = IF ~ok THEN cache
                     ELSE IF w.kind = "transfer" THEN [cache EXCEPT ![s] = dbBalance']
                     ELSE [cache EXCEPT ![s][w.acct] = w.value]
    /\ inflight' = [inflight EXCEPT ![s] = NoWrite]
    /\ UNCHANGED <<nOps, offSessions>>

NextSessions ==
    \/ \E s \in Sessions, kind \in Kinds, a \in Acct, amt \in Amts : IssueWrite(s, kind, a, amt)
    \/ \E s \in Sessions, ok \in BOOLEAN : WriteArrives(s, ok)

\* ================================================================ Accounts view

XferIdle == [pc |-> "idle", from |-> "A", to |-> "A", amt |-> 0,
             fromBal |-> 0, toBal |-> 0,
             debitOk |-> FALSE, creditOk |-> FALSE,
             debitSnapOk |-> FALSE, creditSnapOk |-> FALSE,
             fromBefore |-> 0, toBefore |-> 0, snapsAt |-> 0]

\* updateAccountBalance: the update of accounts.balance; on an error it returns
\* before the snapshot and before refreshAccounts().
UpdatedBalance(db, accountId, newBalance, ok) ==
    IF ok THEN [db EXCEPT ![accountId] = newBalance] ELSE db

UpdatedSnaps(s, accountId, newBalance, ok, snapOk) ==
    IF ok /\ snapOk THEN Append(s, <<accountId, newBalance>>) ELSE s

UpdateWrites_snapshotFirst(accountId, newBalance, ok) ==
    IF ok THEN << <<"snapshot", accountId, newBalance>>, <<"update", accountId, newBalance>> >>
          ELSE << <<"update", accountId, newBalance>> >>
UpdateWrites(accountId, newBalance, ok) ==
    IF ok THEN << <<"update", accountId, newBalance>>, <<"snapshot", accountId, newBalance>> >>
          ELSE << <<"update", accountId, newBalance>> >>

\* (from.balance || 0) - amt and (to.balance || 0) + amt
DebitBalance(bal, amt) == bal - amt

CreditBalance_debit(bal, amt) == bal - amt

CreditBalance(bal, amt) == bal + amt

\* Quick Transfer onClick, up to its first await: the guards and the values
\* captured from the `accounts` state of this render.
TransferClick(f, t, amt) ==
    /\ xfer.pc \in {"idle", "done"}
    /\ nOps < MaxOps
    /\ f # t
    /\ amt # 0
    /\ xfer' = [XferIdle EXCEPT !.pc = "debit", !.from = f, !.to = t, !.amt = amt,
                                !.fromBal = accView[f], !.toBal = accView[t],
                                !.fromBefore = dbBalance[f], !.toBefore = dbBalance[t],
                                !.snapsAt = Len(snaps)]
    /\ wlog' = << >>
    /\ nOps' = nOps + 1
    /\ UNCHANGED <<dbBalance, snaps, accView, refreshPending, offAccounts>>

\* await updateAccountBalance(from.id, from.balance - amt)
TransferDebit(ok, snapOk) ==
    /\ xfer.pc = "debit"
    /\ LET nb == DebitBalance(xfer.fromBal, xfer.amt) IN
        /\ dbBalance' = UpdatedBalance(dbBalance, xfer.from, nb, ok)
        /\ snaps' = UpdatedSnaps(snaps, xfer.from, nb, ok, snapOk)
        /\ wlog' = wlog \o UpdateWrites(xfer.from, nb, ok)
    /\ refreshPending' = (refreshPending \/ ok)
    /\ xfer' = [xfer EXCEPT !.pc = "credit", !.debitOk = ok, !.debitSnapOk = (ok /\ snapOk)]
    /\ UNCHANGED <<accView, nOps, offAccounts>>

\* A credit step that restores the source balance when the credit is rejected.
TransferCredit_rollback(ok, snapOk) ==
    /\ xfer.pc = "credit"
    /\ LET nb == CreditBalance(xfer.toBal, xfer.amt) IN
        /\ dbBalance' = IF ok THEN UpdatedBalance(dbBalance, xfer.to, nb, ok)
                              ELSE [dbBalance EXCEPT ![xfer.from] = xfer.fromBal]
        /\ snaps' = UpdatedSnaps(snaps, xfer.to, nb, ok, snapOk)
        /\ wlog' = wlog \o UpdateWrites(xfer.to, nb, ok)
    /\ refreshPending' = TRUE
    /\ xfer' = [xfer EXCEPT !.pc = "done", !.creditOk = ok, !.creditSnapOk = (ok /\ snapOk)]
    /\ UNCHANGED <<accView, nOps, offAccounts>>

\* await updateAccountBalance(to.id, to.balance + amt); close the modal; refreshAccounts()
TransferCredit(ok, snapOk) ==
    /\ xfer.pc = "credit"
    /\ LET nb == CreditBalance(xfer.toBal, xfer.amt) IN
        /\ dbBalance' = UpdatedBalance(dbBalance, xfer.to, nb, ok)
        /\ snaps' = UpdatedSnaps(snaps, xfer.to, nb, ok, snapOk)
        /\ wlog' = wlog \o UpdateWrites(xfer.to, nb, ok)
    /\ refreshPending' = TRUE
    /\ xfer' = [xfer EXCEPT !.pc = "done", !.creditOk = ok, !.creditSnapOk = (ok /\ snapOk)]
    /\ UNCHANGED <<accView, nOps, offAccounts>>

\* refreshAccounts(): the select resolves and replaces the `accounts` state
RefreshAccounts ==
    /\ refreshPending
    /\ accView' = dbBalance
    /\ refreshPending' = FALSE
    /\ UNCHANGED <<dbBalance, snaps, xfer, wlog, nOps, offAccounts>>

\* saveEdit: the inline balance edit of one account card
SaveEdit(a, val, ok, snapOk) ==
    /\ xfer.pc \in {"idle", "done"}
    /\ nOps < MaxOps
    /\ dbBalance' = UpdatedBalance(dbBalance, a, val, ok)
    /\ snaps' = UpdatedSnaps(snaps, a, val, ok, snapOk)
    /\ wlog' = UpdateWrites(a, val, ok)
    /\ refreshPending' = (refreshPending \/ ok)
    /\ nOps' = nOps + 1
    /\ xfer' = XferIdle
    /\ UNCHANGED <<accView, offAccounts>>

NextAccounts ==
    \/ \E f \in Acct, t \in Acct, amt \in Amts : TransferClick(f, t, amt)
    \/ \E ok \in BOOLEAN, snapOk \in BOOLEAN : TransferDebit(ok, snapOk)
    \/ \E ok \in BOOLEAN, snapOk \in BOOLEAN : TransferCredit(ok, snapOk)
    \/ RefreshAccounts
    \/ \E a \in Acct, val \in {0, 4}, ok \in BOOLEAN, snapOk \in BOOLEAN : SaveEdit(a, val, ok, snapOk)

\* ================================================================ Goals view

GoalIds == {"g1", "g2"}
Day(mi, d) == [mi |-> mi, d |-> d]          \* a calendar date: month index, day of month
ContribDates == {Day(0, 10), Day(1, 10)}
ContribAmts == {0, 1, 2, -1}
PlanInputs == {0, 3}

Max(a, b) == IF a >= b THEN a ELSE b
Floor(a, b) == a \div b                     \* Math.floor(a / b), b > 0
Ceil_floor(a, b) == a \div b
Ceil(a, b) == -((-a) \div b)                \* Math.ceil(a / b), b > 0
Round(a, b) == (2 * a + b) \div (2 * b)     \* Math.round(a / b), b > 0

\* new Date("yyyy-mm-dd") is midnight UTC; getFullYear/getMonth/getDate read it in
\* local time, which west of Greenwich is the evening of the day before (months
\* are taken to have 30 days).
PrevDay(dt) == IF dt.d > 1 THEN Day(dt.mi, dt.d - 1) ELSE Day(dt.mi - 1, 30)
ParseDate(iso, west) == IF west THEN PrevDay(iso) ELSE iso

monthsBetween(from, to) ==
    (to.mi - from.mi) + (IF to.d >= from.d THEN 0 ELSE -1)

DateLE(a, b) == a.mi < b.mi \/ (a.mi = b.mi /\ a.d <= b.d)

RECURSIVE SumAmounts(_)
SumAmounts(list) ==
    IF list = << >> THEN 0 ELSE Head(list).amount + SumAmounts(Tail(list))

OfGoal(list, goalId) == SelectSeq(list, LAMBDA c : c.goal_id = goalId)
InMonth(list, mi) == SelectSeq(list, LAMBDA c : c.date.mi = mi)

savedFor(list, goalId) == SumAmounts(OfGoal(list, goalId))

\* Math.round(monthlyAvgFor(goalId)): total / max(1, months from the first to the
\* last contribution + 1), rounded; 0 for a goal without contributions
monthlyAvgFor(list, goalId, west) ==
    LET l == OfGoal(list, goalId) IN
    IF l = << >> THEN 0
    ELSE LET first == l[CHOOSE i \in 1..Len(l) : \A j \in 1..Len(l) : DateLE(l[i].date, l[j].date)].date
             last == l[CHOOSE i \in 1..Len(l) : \A j \in 1..Len(l) : DateLE(l[j].date, l[i].date)].date
             m == Max(1, monthsBetween(ParseDate(first, west), ParseDate(last, west)) + 1)
         IN  Round(SumAmounts(l), m)

\* projectedAtTarget >= target_amount
onTrack_strict(saved, monthly, months, target) == saved + monthly * months > target
onTrack(saved, monthly, months, target) == saved + monthly * months >= target

\* the body shared by rebalanceGoalMonthly and the card rows: every derived value
\* of goal row g over the contribution list `list` on the date `now`
Derived(goalId, g, list, now, west) ==
    LET saved == savedFor(list, goalId)
        remaining == Max(0, g.target_amount - saved)
        target == ParseDate(g.target_date, west)
        monthsLeft == Max(1, monthsBetween(now, target))
        plannedMonthly == g.monthly_contribution
        avgMonthly == monthlyAvgFor(list, goalId, west)
        suggested == Ceil(remaining, monthsLeft)
        baselineMonthly == IF plannedMonthly # 0 THEN plannedMonthly
                           ELSE IF avgMonthly # 0 THEN avgMonthly ELSE suggested
        contributedThisMonth == SumAmounts(InMonth(OfGoal(list, goalId), now.mi))
        nextMonthStart == Day(now.mi + 1, 1)
        monthsLeftExclCurrent == Max(1, monthsBetween(nextMonthStart, target) + 1)
        delta == baselineMonthly - contributedThisMonth
        rebalanceAdj == IF delta > 0 THEN Ceil(delta, monthsLeftExclCurrent)
                        ELSE IF delta < 0 THEN Floor(delta, monthsLeftExclCurrent) ELSE 0
        newMonthly == Max(0, baselineMonthly + rebalanceAdj)
    IN  [saved |-> saved, remaining |-> remaining, monthsLeft |-> monthsLeft,
         suggested |-> suggested, baselineMonthly |-> baselineMonthly,
         contributedThisMonth |-> contributedThisMonth,
         monthsLeftExclCurrent |-> monthsLeftExclCurrent,
         rebalancedNextMonthly |-> newMonthly,
         onTrack |-> onTrack(saved, newMonthly, monthsLeftExclCurrent, g.target_amount)]

\* rebalanceGoalMonthly(g): the value it sends as monthly_contribution
rebalanceGoalMonthly(goalId, g, list, now, west) ==
    Derived(goalId, g, list, now, west).rebalancedNextMonthly

\* rows: the card of goal goalId as rendered from the view's state
rows(goalId) == Derived(goalId, goals[goalId], contribs, today, tzWest)

\* the rows of goal_contributions as select("*").order("date") returns them
InsertByDate(list, row) ==
    LET k == Cardinality({i \in 1..Len(list) : DateLE(list[i].date, row.date)})
    IN  SubSeq(list, 1, k) \o <<row>> \o SubSeq(list, k + 1, Len(list))

NoOp == [kind |-> "none", goal |-> "g1", sign |-> 0, amount |-> 0, inserted |-> FALSE,
         persisted |-> FALSE, sent |-> 0, goalBefore |-> [target_amount |-> 0,
         target_date |-> Day(0, 1), monthly_contribution |-> 0], held |-> << >>,
         storedBefore |-> << >>]

\* payload.amount = Number(amount || 0) * sign
ContribAmount_unsigned(amt, sign) == amt
ContribAmount(amt, sign) == amt * sign

\* the list the rebalance that follows a saved deposit reads: the handler's
\* closure still holds the `contribs` of the render in which it was created
ListSeenByRebalance(held, reloaded) == held

\* saveContrib(sign) with the modal open on goal goalId
saveContrib(goalId, sign, amt, date, okInsert, okSelect, okUpdate) ==
    /\ nGoalOps < MaxGoalOps
    /\ nGoalOps' = nGoalOps + 1
    /\ LET payload == [goal_id |-> goalId, amount |-> ContribAmount(amt, sign), date |-> date]
           op == [NoOp EXCEPT !.kind = "contrib", !.goal = goalId, !.sign = sign,
                              !.amount = amt, !.goalBefore = goals[goalId],
                              !.held = contribs, !.storedBefore = dbContribs]
       IN
       IF payload.amount = 0 \/ ~okInsert
       THEN /\ lastOp' = op
            /\ UNCHANGED <<dbGoals, dbContribs, goals, contribs, ledger>>
       ELSE LET stored == InsertByDate(dbContribs, payload)
                reloaded == IF okSelect THEN stored ELSE << >>
                newMonthly == rebalanceGoalMonthly(goalId, goals[goalId],
                                  ListSeenByRebalance(contribs, reloaded), today, tzWest)
                updated == (sign = 1 /\ okUpdate)
            IN  /\ dbContribs' = stored
                /\ contribs' = reloaded
                /\ dbGoals' = IF updated
                              THEN [dbGoals EXCEPT ![goalId].monthly_contribution = newMonthly]
                              ELSE dbGoals
                /\ goals' = IF updated
                            THEN [goals EXCEPT ![goalId].monthly_contribution = newMonthly]
                            ELSE goals
                /\ ledger' = [ledger EXCEPT ![goalId] = @ + (IF sign = 1 THEN amt ELSE -amt)]
                /\ lastOp' = [op EXCEPT !.inserted = TRUE, !.persisted = updated,
                                        !.sent = IF sign = 1 THEN newMonthly ELSE 0]
    /\ UNCHANGED <<today, tzWest, offGoals>>

\* Monthly plan input, onChange: the typed value replaces the local plan
TypeMonthly(goalId, v) ==
    /\ nGoalOps < MaxGoalOps
    /\ nGoalOps' = nGoalOps + 1
    /\ goals' = [goals EXCEPT ![goalId].monthly_contribution = v]
    /\ lastOp' = [NoOp EXCEPT !.kind = "type", !.goal = goalId]
    /\ UNCHANGED <<dbGoals, dbContribs, contribs, ledger, today, tzWest, offGoals>>

\* Monthly plan input, onBlur: the displayed value is written to the goal row
BlurMonthly(goalId, ok) ==
    /\ nGoalOps < MaxGoalOps
    /\ nGoalOps' = nGoalOps + 1
    /\ dbGoals' = IF ok THEN [dbGoals EXCEPT ![goalId].monthly_contribution =
                                  goals[goalId].monthly_contribution]
                        ELSE dbGoals
    /\ lastOp' = [NoOp EXCEPT !.kind = "blur", !.goal = goalId]
    /\ UNCHANGED <<dbContribs, goals, contribs, ledger, today, tzWest, offGoals>>

\* Apply rebalance: persist the card's rebalancedNextMonthly as the monthly plan
ApplyRebalance(goalId, ok) ==
    /\ nGoalOps < MaxGoalOps
    /\ nGoalOps' = nGoalOps + 1
    /\ LET v == rows(goalId).rebalancedNextMonthly IN
        /\ dbGoals' = IF ok THEN [dbGoals EXCEPT ![goalId].monthly_contribution = v] ELSE dbGoals
        /\ goals' = IF ok THEN [goals EXCEPT ![goalId].monthly_contribution = v] ELSE goals
        /\ lastOp' = [NoOp EXCEPT !.kind = "apply", !.goal = goalId, !.persisted = ok, !.sent = v,
                                  !.goalBefore = goals[goalId], !.held = contribs]
    /\ UNCHANGED <<dbContribs, contribs, ledger, today, tzWest, offGoals>>

\* the outcome of a backend call the handler never reaches is left at TRUE
Reached(sign, amt, okInsert, okSelect, okUpdate) ==
    /\ (amt = 0) => okInsert
    /\ (amt = 0 \/ ~okInsert) => okSelect
    /\ (amt = 0 \/ ~okInsert \/ sign # 1) => okUpdate

GoalsQuiet ==
    /\ dbGoals = [g \in GoalIds |->
                    IF g = "g1"
                    THEN [target_amount |-> 7, target_date |-> Day(4, 15), monthly_contribution |-> 0]
                    ELSE [target_amount |-> 4, target_date |-> Day(3, 1), monthly_contribution |-> 3]]
    /\ goals = dbGoals
    /\ dbContribs = << >>
    /\ contribs = << >>
    /\ lastOp = NoOp
    /\ ledger = [g \in GoalIds |-> 0]
    /\ nGoalOps = 0

NextGoals ==
    \/ \E goalId \in GoalIds, sign \in {1, -1}, amt \in ContribAmts, date \in ContribDates,
          okInsert \in BOOLEAN, okSelect \in BOOLEAN, okUpdate \in BOOLEAN :
            /\ Reached(sign, amt, okInsert, okSelect, okUpdate)
            /\ saveContrib(goalId, sign, amt, date, okInsert, okSelect, okUpdate)
    \/ \E goalId \in GoalIds, v \in PlanInputs : TypeMonthly(goalId, v)
    \/ \E goalId \in GoalIds, ok \in BOOLEAN : BlurMonthly(goalId, ok)
    \/ \E goalId \in GoalIds, ok \in BOOLEAN : ApplyRebalance(goalId, ok)

\* ================================================================ Transactions view

\* today.getMonth() and today.getFullYear() when the view is mounted
ThisMonth == 1
ThisYear == 2025
\* the month and year of an ISO date yyyy-mm-dd
ExpenseDate(y, mi) == [y |-> y, mi |-> mi]
\* an expenses row; the form and the import date it in the current month
Expense(id, acct, amt, cat) ==
    [id |-> id, account_id |-> acct, amount |-> amt, category_id |-> cat,
     date |-> ExpenseDate(ThisYear, ThisMonth), description |-> "x"]
InitExpenses ==
    << [Expense(1, "A", 2, "Food") EXCEPT !.description = "coffee"],
       [Expense(2, "A", 1, "Food") EXCEPT !.description = "rent"],
       [Expense(3, "B", 1, "Food") EXCEPT !.description = "bus"] >>
\* the same rows and two of other months
TableExpenses ==
    InitExpenses \o
    << [Expense(4, "B", 2, "Food") EXCEPT !.description = "rent",
                                          !.date = ExpenseDate(ThisYear, ThisMonth - 1)],
       [Expense(5, "A", 1, "Food") EXCEPT !.description = "taxi",
                                          !.date = ExpenseDate(ThisYear, ThisMonth - 1)] >>

SeqRange(q) == {q[i] : i \in 1..Len(q)}
Ids(q) == {q[i].id : i \in 1..Len(q)}

\* account names as the accounts table holds them, and toLowerCase()
AcctName(a) == IF a = "A" THEN "Cash" ELSE "Bank"
Lower(n) == CASE n \in {"Cash", "cash"} -> "cash"
              [] n \in {"Bank", "BANK"} -> "bank"
              [] n \in {"Food", "food"} -> "food"
              [] n \in {"Rent"} -> "rent"
              [] OTHER -> n

NoTx == [kind |-> "none", ok |-> FALSE, balBefore |-> InitBal, localBefore |-> InitBal,
         rows |-> << >>]

isInMonth(date, m, y) == date.mi = m /\ date.y = y

\* filteredData: the expenses of the displayed month
filteredData == SelectSeq(data, LAMBDA e : isInMonth(e.date, txMonth, txYear))

\* the texts typed into the search box; a non-empty one is a description
SearchTexts == {"", "rent", "bus"}
\* fuzzyFilter as the table's global filter: with an empty search text every row
\* passes, otherwise the rows one of whose cells matches the text
fuzzyFilter(e, value) == value = "" \/ e.description = value

\* table.getRowModel().rows: the rows the table renders
tableRows == SelectSeq(filteredData, LAMBDA e : fuzzyFilter(e, globalFilter))

\* addExpenseToDB with the form holding account acct and amount amt
addExpenseToDB(acct, amt, okInsert, okUpdate, okSnap) ==
    /\ nTxOps < MaxTxOps
    /\ nTxOps' = nTxOps + 1
    /\ IF amt = 0 \/ ~okInsert
       THEN /\ txLast' = [NoTx EXCEPT !.kind = "add", !.balBefore = dbBalance,
                                      !.localBefore = txAccounts]
            /\ UNCHANGED <<dbExpenses, data, nextId, dbBalance, snaps, txAccounts>>
       ELSE LET inserted == Expense(nextId, acct, amt, "Food")
                newBalance == txAccounts[acct] - inserted.amount
            IN  /\ dbExpenses' = dbExpenses \cup {inserted}
                /\ nextId' = nextId + 1
                /\ data' = Append(data, inserted)
                /\ dbBalance' = IF okUpdate THEN [dbBalance EXCEPT ![acct] = newBalance]
                                            ELSE dbBalance
                /\ snaps' = IF okUpdate /\ okSnap THEN Append(snaps, <<acct, newBalance>>)
                                                  ELSE snaps
                /\ txAccounts' = IF okUpdate THEN [txAccounts EXCEPT ![acct] = newBalance]
                                             ELSE txAccounts
                /\ txLast' = [NoTx EXCEPT !.kind = "add", !.ok = (okUpdate /\ okSnap),
                                          !.balBefore = dbBalance, !.localBefore = txAccounts,
                                          !.rows = <<inserted>>]
    /\ UNCHANGED <<dbCategories, selectedRows, undoStack, showUndo, txMonth, txYear, globalFilter,
                   undoCalls, offTx>>

\* the balance writes of a loop over `list`: every pass reads the account row of
\* the `accounts` state the handler was created with, adds delta * amount to it and
\* sends the result; the last pass for an account decides its value
RECURSIVE LoopBalances(_, _, _, _)
LoopBalances(list, closure, acc, delta) ==
    IF list = << >> THEN acc
    ELSE LET exp == Head(list)
             newBalance == closure[exp.account_id] + delta * exp.amount
         IN  LoopBalances(Tail(list), closure, [acc EXCEPT ![exp.account_id] = newBalance], delta)

\* deleteExpense(rowIndex)
deleteExpense(rowIndex, okDelete, okUpdate) ==
    /\ nTxOps < MaxTxOps
    /\ rowIndex \in 1..Len(filteredData)
    /\ nTxOps' = nTxOps + 1
    /\ LET exp == filteredData[rowIndex] IN
       IF ~okDelete
       THEN /\ txLast' = [NoTx EXCEPT !.kind = "delete", !.balBefore = dbBalance,
                                      !.localBefore = txAccounts]
            /\ UNCHANGED <<dbExpenses, data, dbBalance, txAccounts, undoStack, showUndo>>
       ELSE /\ dbExpenses' = {e \in dbExpenses : e.id # exp.id}
            /\ dbBalance' = IF okUpdate THEN LoopBalances(<<exp>>, txAccounts, dbBalance, 1)
                                        ELSE dbBalance
            /\ txAccounts' = LoopBalances(<<exp>>, txAccounts, txAccounts, 1)
            /\ undoStack' = <<exp>>
            /\ showUndo' = TRUE
            /\ data' = SelectSeq(data, LAMBDA d : d.id # exp.id)
            /\ txLast' = [NoTx EXCEPT !.kind = "delete", !.ok = okUpdate,
                                      !.balBefore = dbBalance, !.localBefore = txAccounts,
                                      !.rows = <<exp>>]
    /\ UNCHANGED <<dbCategories, selectedRows, nextId, snaps, txMonth, txYear, globalFilter,
                   undoCalls, offTx>>

\* bulkDelete
bulkDelete(okDelete, okUpdate) ==
    /\ nTxOps < MaxTxOps
    /\ selectedRows # {}
    /\ nTxOps' = nTxOps + 1
    /\ LET deleted == SelectSeq(data, LAMBDA d : d.id \in selectedRows) IN
       IF ~okDelete
       THEN /\ txLast' = [NoTx EXCEPT !.kind = "bulk", !.balBefore = dbBalance,
                                      !.localBefore = txAccounts]
            /\ UNCHANGED <<dbExpenses, data, dbBalance, txAccounts, undoStack, showUndo,
                           selectedRows>>
       ELSE /\ dbExpenses' = {e \in dbExpenses : e.id \notin selectedRows}
            /\ dbBalance' = IF okUpdate THEN LoopBalances(deleted, txAccounts, dbBalance, 1)
                                        ELSE dbBalance
            /\ txAccounts' = LoopBalances(deleted, txAccounts, txAccounts, 1)
            /\ undoStack' = deleted
            /\ showUndo' = TRUE
            /\ data' = SelectSeq(data, LAMBDA d : d.id \notin selectedRows)
            /\ selectedRows' = {}
            /\ txLast' = [NoTx EXCEPT !.kind = "bulk", !.ok = okUpdate,
                                      !.balBefore = dbBalance, !.localBefore = txAccounts,
                                      !.rows = deleted]
    /\ UNCHANGED <<dbCategories, nextId, snaps, txMonth, txYear, globalFilter,
                   undoCalls, offTx>>

\* undoDelete: re-insert every expense of undoStack and charge its account again
undoDelete(okInsert, okUpdate) ==
    /\ nTxOps < MaxTxOps
    /\ showUndo
    /\ nTxOps' = nTxOps + 1
    /\ dbExpenses' = IF okInsert
                     THEN dbExpenses \cup {e \in SeqRange(undoStack) :
                                              e.id \notin {x.id : x \in dbExpenses}}
                     ELSE dbExpenses
    /\ dbBalance' = IF okUpdate THEN LoopBalances(undoStack, txAccounts, dbBalance, -1)
                                ELSE dbBalance
    /\ txAccounts' = LoopBalances(undoStack, txAccounts, txAccounts, -1)
    /\ data' = data \o undoStack
    /\ showUndo' = FALSE
    /\ txLast' = [NoTx EXCEPT !.kind = "undo", !.ok = (okInsert /\ okUpdate),
                              !.balBefore = dbBalance, !.localBefore = txAccounts,
                              !.rows = undoStack]
    /\ UNCHANGED <<dbCategories, selectedRows, undoStack, nextId, snaps, txMonth, txYear, globalFilter,
                   undoCalls, offTx>>

\* ---- undoDelete call by call: a click on Undo starts a call that holds the
\* undoStack and the accounts of the render it was created in; each pass of its
\* loop awaits the insert and the balance update of one expense, and the last
\* pass goes on to setData and setShowUndo(false)
UndoFrame(stack, closure, after) ==
    [stack |-> stack, closure |-> closure, pos |-> 1, ok |-> TRUE, after |-> after]
UndoDone(f) == f.pos > Len(f.stack)

\* a click on Undo in the toast
undoClick ==
    /\ showUndo
    /\ Len(undoCalls) < MaxUndoClicks
    /\ undoCalls' = Append(undoCalls, UndoFrame(undoStack, txAccounts, nTxOps))
    /\ UNCHANGED <<dbExpenses, dbCategories, data, txAccounts, selectedRows, undoStack,
                   showUndo, nextId, txLast, nTxOps, txMonth, txYear, globalFilter,
                   dbBalance, snaps, offTx>>

\* one pass of the loop of call i
undoPass(i, okInsert, okUpdate) ==
    /\ i \in 1..Len(undoCalls)
    /\ ~UndoDone(undoCalls[i])
    /\ LET f == undoCalls[i]
           exp == f.stack[f.pos]
           newBalance == f.closure[exp.account_id] - exp.amount
           last == f.pos = Len(f.stack)
       IN  /\ dbExpenses' = IF okInsert /\ exp.id \notin {x.id : x \in dbExpenses}
                            THEN dbExpenses \cup {exp} ELSE dbExpenses
           /\ dbBalance' = IF okUpdate THEN [dbBalance EXCEPT ![exp.account_id] = newBalance]
                                       ELSE dbBalance
           /\ txAccounts' = [txAccounts EXCEPT ![exp.account_id] = newBalance]
           /\ data' = IF last THEN data \o f.stack ELSE data
           /\ showUndo' = IF last THEN FALSE ELSE showUndo
           /\ undoCalls' = [undoCalls EXCEPT ![i].pos = @ + 1,
                                             ![i].ok = @ /\ okInsert /\ okUpdate]
    /\ UNCHANGED <<dbCategories, selectedRows, undoStack, nextId, txLast, nTxOps, txMonth,
                   txYear, globalFilter, snaps, offTx>>

\* setTimeout(() => setShowUndo(false), 4000)
hideUndo ==
    /\ showUndo
    /\ showUndo' = FALSE
    /\ UNCHANGED <<dbExpenses, dbCategories, data, txAccounts, selectedRows, undoStack,
                   nextId, txLast, nTxOps, dbBalance, snaps, txMonth, txYear, globalFilter,
                   undoCalls, offTx>>

\* changeMonth(offset): new Date(year, month + offset, 1)
changeMonth(offset) ==
    LET n == txYear * 12 + txMonth + offset IN
    /\ n - (ThisYear * 12 + ThisMonth) \in -MaxNav..MaxNav
    /\ txMonth' = n % 12
    /\ txYear' = n \div 12
    /\ UNCHANGED <<dbExpenses, dbCategories, data, txAccounts, selectedRows, undoStack,
                   showUndo, nextId, txLast, nTxOps, globalFilter, dbBalance, snaps,
                   undoCalls, offTx>>

\* onChange of the search box
setGlobalFilter(value) ==
    /\ value # globalFilter
    /\ globalFilter' = value
    /\ UNCHANGED <<dbExpenses, dbCategories, data, txAccounts, selectedRows, undoStack,
                   showUndo, nextId, txLast, nTxOps, txMonth, txYear, dbBalance, snaps,
                   undoCalls, offTx>>

toggleSelectRow(id) ==
    /\ id \in Ids(filteredData)
    /\ selectedRows' = IF id \in selectedRows THEN selectedRows \ {id}
                                              ELSE selectedRows \cup {id}
    /\ UNCHANGED <<dbExpenses, dbCategories, data, txAccounts, undoStack, showUndo,
                   nextId, txLast, nTxOps, dbBalance, snaps, txMonth, txYear, globalFilter,
                   undoCalls, offTx>>

toggleSelectAll ==
    /\ selectedRows' = IF Cardinality(selectedRows) = Len(filteredData) THEN {}
                       ELSE Ids(filteredData)
    /\ UNCHANGED <<dbExpenses, dbCategories, data, txAccounts, undoStack, showUndo,
                   nextId, txLast, nTxOps, dbBalance, snaps, txMonth, txYear, globalFilter,
                   undoCalls, offTx>>

\* ---- CSV import
\* a parsed CSV row: description, category, account as text ("" when the column is
\* empty), whether new Date(date) is a valid date, whether parseFloat(amount) is a
\* number, and that number
CsvRow(desc, cat, acct, dateOk, amtOk, amt) ==
    [description |-> desc, category |-> cat, account |-> acct, dateOk |-> dateOk,
     amountOk |-> amtOk, amount |-> amt]
CsvPool == { CsvRow("x", "food", "cash", TRUE, TRUE, 2),
             CsvRow("x", "Rent", "BANK", TRUE, TRUE, 1),
             CsvRow("x", "Rent", "Nope", TRUE, TRUE, 1),
             CsvRow("", "Food", "Cash", TRUE, TRUE, 1),
             CsvRow("x", "Food", "Cash", FALSE, TRUE, 1),
             CsvRow("x", "Food", "Cash", TRUE, FALSE, 0) }
CsvFiles == UNION {[1..n -> CsvPool] : n \in 1..MaxCsvRows}

\* the for loop of importCSV over the rows left, with the categories known so far
\* (cats), the expenses collected so far (out) and the categories created (made)
RECURSIVE ImportLoop(_, _, _, _, _)
ImportLoop(csvRows, cats, out, made, okCat) ==
    IF csvRows = << >> THEN [newExpenses |-> out, created |-> made]
    ELSE LET row == Head(csvRows)
             rest == Tail(csvRows)
             found == {c \in cats : Lower(c) = Lower(row.category)}
             accts == {a \in Acct : Lower(AcctName(a)) = Lower(row.account)}
         IN  IF row.description = "" \/ row.category = "" \/ row.account = ""
                \/ ~row.dateOk \/ ~row.amountOk
             THEN ImportLoop(rest, cats, out, made, okCat)
             ELSE IF found = {} /\ ~okCat
             THEN ImportLoop(rest, cats, out, made, okCat)
             ELSE LET cats2 == IF found = {} THEN cats \cup {row.category} ELSE cats
                      made2 == IF found = {} THEN Append(made, row.category) ELSE made
                      category_id == IF found = {} THEN row.category
                                     ELSE CHOOSE c \in found : TRUE
                  IN  IF accts = {}
                      THEN ImportLoop(rest, cats2, out, made2, okCat)
                      ELSE ImportLoop(rest, cats2,
                               Append(out, [account_id |-> CHOOSE a \in accts : TRUE,
                                            amount |-> row.amount,
                                            category_id |-> category_id]),
                               made2, okCat)

WithIds(newExpenses, first) ==
    [i \in 1..Len(newExpenses) |->
        Expense(first + i - 1, newExpenses[i].account_id, newExpenses[i].amount,
                newExpenses[i].category_id)]

\* importCSV(file): the `complete` callback
importCSV(file, okCat, okInsert) ==
    /\ nTxOps < MaxTxOps
    /\ nTxOps' = nTxOps + 1
    /\ LET r == ImportLoop(file, dbCategories, << >>, << >>, okCat)
           inserted == WithIds(r.newExpenses, nextId)
       IN  /\ dbCategories' = dbCategories \cup SeqRange(r.created)
           /\ IF r.newExpenses # << >> /\ okInsert
              THEN /\ dbExpenses' = dbExpenses \cup SeqRange(inserted)
                   /\ nextId' = nextId + Len(inserted)
                   /\ data' = data \o inserted
                   /\ txLast' = [NoTx EXCEPT !.kind = "import", !.ok = TRUE,
                                             !.balBefore = dbBalance,
                                             !.localBefore = txAccounts, !.rows = inserted]
              ELSE /\ txLast' = [NoTx EXCEPT !.kind = "import", !.balBefore = dbBalance,
                                             !.localBefore = txAccounts]
                   /\ UNCHANGED <<dbExpenses, nextId, data>>
    /\ UNCHANGED <<txAccounts, selectedRows, undoStack, showUndo, dbBalance, snaps, txMonth, txYear, globalFilter,
                   undoCalls, offTx>>

\* ---- the month buttons of the Dashboard
dashPrevMonth ==
    /\ dashMonth' = IF dashMonth = 0 THEN 11 ELSE dashMonth - 1
    /\ UNCHANGED <<accountsVars, sessionVars, goalVars, txVars, recVars, cfVars, budgetVars,
                   pageVars, formVars, dashYear, recYear, bgYear>>

dashNextMonth ==
    /\ dashMonth' = IF dashMonth = 11 THEN 0 ELSE dashMonth + 1
    /\ UNCHANGED <<accountsVars, sessionVars, goalVars, txVars, recVars, cfVars, budgetVars,
                   pageVars, formVars, dashYear, recYear, bgYear>>

\* useState(today.getMonth()) and useState(today.getFullYear()) of each view
NavQuiet ==
    /\ dashMonth = ThisMonth
    /\ dashYear = ThisYear
    /\ recYear = ThisYear
    /\ bgYear = ThisYear

InitialSnaps == << <<"A", InitBal["A"]>>, <<"B", InitBal["B"]>> >>

TxQuiet ==
    /\ dbExpenses = SeqRange(InitExpenses)
    /\ dbCategories = {"Food"}
    /\ data = InitExpenses
    /\ txAccounts = InitBal
    /\ selectedRows = {}
    /\ undoStack = << >>
    /\ showUndo = FALSE
    /\ nextId = Len(InitExpenses) + 1
    /\ txLast = NoTx
    /\ nTxOps = 0
    /\ txMonth = ThisMonth
    /\ txYear = ThisYear
    /\ globalFilter = ""
    /\ undoCalls = << >>

\* the view mounted over a table holding expenses of several months
TableQuiet ==
    /\ dbExpenses = SeqRange(TableExpenses)
    /\ dbCategories = {"Food"}
    /\ data = TableExpenses
    /\ txAccounts = InitBal
    /\ selectedRows = {}
    /\ undoStack = << >>
    /\ showUndo = FALSE
    /\ nextId = Len(TableExpenses) + 1
    /\ txLast = NoTx
    /\ nTxOps = 0
    /\ txMonth = ThisMonth
    /\ txYear = ThisYear
    /\ globalFilter = ""
    /\ undoCalls = << >>

\* the expenses table: month buttons, search box and the Delete button of a row
NextTable ==
    \/ \E offset \in {-1, 1} : changeMonth(offset)
    \/ \E value \in SearchTexts : setGlobalFilter(value)
    \/ \E idx \in 1..Len(tableRows), okDelete \in BOOLEAN, okUpdate \in BOOLEAN :
          deleteExpense(idx, okDelete, okUpdate)

\* deleting and undoing: the header checkbox, Delete, Delete selected, the Undo toast
NextUndo ==
    \/ toggleSelectAll
    \/ \E rowIndex \in 1..Len(data), okDelete \in BOOLEAN, okUpdate \in BOOLEAN :
          deleteExpense(rowIndex, okDelete, okUpdate)
    \/ \E okDelete \in BOOLEAN, okUpdate \in BOOLEAN : bulkDelete(okDelete, okUpdate)
    \/ undoClick
    \/ \E i \in 1..Len(undoCalls), okInsert \in BOOLEAN, okUpdate \in BOOLEAN :
          undoPass(i, okInsert, okUpdate)
    \/ hideUndo

NextTx ==
    \/ \E acct \in Acct, amt \in Amts \cup {0}, okInsert \in BOOLEAN, okUpdate \in BOOLEAN,
          okSnap \in BOOLEAN : addExpenseToDB(acct, amt, okInsert, okUpdate, okSnap)
    \/ \E rowIndex \in 1..Len(data), okDelete \in BOOLEAN, okUpdate \in BOOLEAN :
          deleteExpense(rowIndex, okDelete, okUpdate)
    \/ \E okDelete \in BOOLEAN, okUpdate \in BOOLEAN : bulkDelete(okDelete, okUpdate)
    \/ \E okInsert \in BOOLEAN, okUpdate \in BOOLEAN : undoDelete(okInsert, okUpdate)
    \/ hideUndo
    \/ \E id \in Ids(data) : toggleSelectRow(id)
    \/ toggleSelectAll

\* the Transactions view used to record expenses: the form, the CSV import, Delete
NextImport ==
    \/ \E file \in CsvFiles, okCat \in BOOLEAN, okInsert \in BOOLEAN :
          importCSV(file, okCat, okInsert)
    \/ \E acct \in Acct, amt \in Amts \cup {0}, okInsert \in BOOLEAN, okUpdate \in BOOLEAN,
          okSnap \in BOOLEAN : addExpenseToDB(acct, amt, okInsert, okUpdate, okSnap)
    \/ \E rowIndex \in 1..Len(data), okDelete \in BOOLEAN, okUpdate \in BOOLEAN :
          deleteExpense(rowIndex, okDelete, okUpdate)

\* ================================================================ Recurring view

RecurringIds == {"r1", "r2"}
PayIds == {1, 2}
AcctCurrency(a) == IF a = "A" THEN "USD" ELSE "CRC"
\* a nullable column holds << >> for null and <<v>> for the value v
Null == << >>
\* the recurrings rows (templates) the view loads at first
InitRecurrings == [r \in RecurringIds |->
    IF r = "r1" THEN [amount |-> 2, currency |-> "USD", frequency |-> "Monthly",
                      start_date |-> Day(1, 5), end_date |-> <<Day(1, 30)>>]
                ELSE [amount |-> 1, currency |-> "CRC", frequency |-> "Monthly",
                      start_date |-> Day(1, 12), end_date |-> <<Day(1, 20)>>]]
ActualInputs == {0, 4}

\* x ?? y
Coalesce_or(x, y) == IF x = Null \/ x = <<0>> THEN y ELSE x[1]
Coalesce(x, y) == IF x = Null THEN y ELSE x[1]

\* baseRows: the ids of the payments dated within the displayed month whose
\* template the view holds (one row each)
baseRows_open ==
    {id \in DOMAIN payments :
        /\ DateLE(Day(recMonth, 1), payments[id].date)
        /\ DateLE(payments[id].date, Day(recMonth, 30)) /\ payments[id].date # Day(recMonth, 30)
        /\ payments[id].recurring_id \in DOMAIN recurrings}
baseRows ==
    {id \in DOMAIN payments :
        /\ DateLE(Day(recMonth, 1), payments[id].date)
        /\ DateLE(payments[id].date, Day(recMonth, 30))
        /\ payments[id].recurring_id \in DOMAIN recurrings}

\* Number(row.payment.actual_amount ?? row.recurring.amount)
ChargeAmount(payment) == Coalesce(payment.actual_amount, recurrings[payment.recurring_id].amount)

schedVars == <<dbRecurrings, recurrings, recMonth, nTemplates, nNav>>

MpSlots == 1..MaxRecOps
NoPayment == [recurring_id |-> "r1", date |-> Day(0, 1), actual_amount |-> Null,
              is_paid |-> FALSE, account_id |-> ""]
\* a markPaid call: where it stands, the row and account it was given, amt and
\* newBalance as it computed them; and for the record the stored balance of the
\* account at the click and after the deduction, whether every write so far was
\* applied, and whether another call was in flight during this one
MpIdle == [pc |-> "idle", pay |-> 1, row |-> NoPayment, acct |-> "A", amt |-> 0,
           newBalance |-> 0, dbBefore |-> 0, dbAfter |-> 0, allOk |-> TRUE,
           overlap |-> FALSE]
InFlight(c) == c.pc \in {"deduct", "snapshot", "expense", "flag"}

\* updateActual(paymentId, nextVal), from the Actual input's onBlur
updateActual(paymentId, nextVal, ok) ==
    /\ nRecOps < MaxRecOps
    /\ paymentId \in baseRows
    /\ nextVal # Coalesce(payments[paymentId].actual_amount,
                          recurrings[payments[paymentId].recurring_id].amount)
    /\ nRecOps' = nRecOps + 1
    /\ dbPayments' = IF ok THEN [dbPayments EXCEPT ![paymentId].actual_amount = <<nextVal>>]
                           ELSE dbPayments
    /\ payments' = IF ok THEN [payments EXCEPT ![paymentId].actual_amount = <<nextVal>>]
                         ELSE payments
    /\ UNCHANGED <<recAccounts, paidExpenses, mp, dbBalance, snaps, schedVars, offRec>>

\* Mark paid onClick and markPaid(row, accountId) up to its first await: the row and
\* the account are those of the render the button belongs to; `proceed` answers
\* the confirm() dialogs.  The click may come while one earlier call is still in
\* flight; runs with three calls in flight at once are not followed.
markPaidClick(paymentId, accountId, proceed) ==
    /\ nRecOps < MaxRecOps
    /\ \A j, k \in MpSlots : (InFlight(mp[j]) /\ InFlight(mp[k])) => j = k
    /\ paymentId \in baseRows
    /\ ~payments[paymentId].is_paid
    /\ LET row == payments[paymentId]
           amt == ChargeAmount(row)
           balance == recAccounts[accountId]
           asks == AcctCurrency(accountId) # recurrings[row.recurring_id].currency
                   \/ balance < amt
           slot == nRecOps + 1
       IN  /\ asks \/ proceed
           /\ nRecOps' = nRecOps + 1
           /\ mp' = IF asks /\ ~proceed THEN mp
                    ELSE [i \in MpSlots |->
                            IF i = slot
                            THEN [MpIdle EXCEPT !.pc = "deduct", !.pay = paymentId,
                                                !.acct = accountId, !.amt = amt,
                                                !.newBalance = balance - amt,
                                                !.row = row,
                                                !.dbBefore = dbBalance[accountId],
                                                !.overlap = \E j \in MpSlots : InFlight(mp[j])]
                            ELSE IF InFlight(mp[i]) THEN [mp[i] EXCEPT !.overlap = TRUE]
                            ELSE mp[i]]
    /\ UNCHANGED <<dbPayments, payments, recAccounts, paidExpenses, dbBalance, snaps, schedVars, offRec>>

\* a deduction step that goes on to the snapshot whatever the update answered
markPaidDeduct_goesOn(i, ok) ==
    /\ mp[i].pc = "deduct"
    /\ LET c == mp[i] IN
        /\ dbBalance' = IF ok THEN [dbBalance EXCEPT ![c.acct] = c.newBalance] ELSE dbBalance
        /\ recAccounts' = IF ok THEN [recAccounts EXCEPT ![c.acct] = c.newBalance]
                                ELSE recAccounts
        /\ mp' = [mp EXCEPT ![i].pc = "snapshot",
                            ![i].allOk = ok, ![i].dbAfter = dbBalance'[c.acct]]
    /\ UNCHANGED <<dbPayments, payments, paidExpenses, snaps, nRecOps, schedVars, offRec>>

\* 1) Deduct from account
markPaidDeduct(i, ok) ==
    /\ mp[i].pc = "deduct"
    /\ LET c == mp[i] IN
        /\ dbBalance' = IF ok THEN [dbBalance EXCEPT ![c.acct] = c.newBalance] ELSE dbBalance
        /\ recAccounts' = IF ok THEN [recAccounts EXCEPT ![c.acct] = c.newBalance]
                                ELSE recAccounts
        /\ mp' = [mp EXCEPT ![i].pc = IF ok THEN "snapshot" ELSE "done",
                            ![i].allOk = ok, ![i].dbAfter = dbBalance'[c.acct]]
    /\ UNCHANGED <<dbPayments, payments, paidExpenses, snaps, nRecOps, schedVars, offRec>>

\* 2) Snapshot
markPaidSnapshot(i, ok) ==
    /\ mp[i].pc = "snapshot"
    /\ snaps' = IF ok THEN Append(snaps, <<mp[i].acct, mp[i].newBalance>>) ELSE snaps
    /\ mp' = [mp EXCEPT ![i].pc = "expense", ![i].allOk = @ /\ ok]
    /\ UNCHANGED <<dbPayments, payments, recAccounts, paidExpenses, dbBalance, nRecOps, schedVars, offRec>>

\* 3) Optional: register expense
markPaidExpense(i, ok) ==
    /\ mp[i].pc = "expense"
    /\ paidExpenses' = IF ok THEN Append(paidExpenses,
                                     [amount |-> mp[i].amt, date |-> mp[i].row.date,
                                      account_id |-> mp[i].acct, pay |-> mp[i].pay])
                             ELSE paidExpenses
    /\ mp' = [mp EXCEPT ![i].pc = "flag", ![i].allOk = @ /\ ok]
    /\ UNCHANGED <<dbPayments, payments, recAccounts, dbBalance, snaps, nRecOps, schedVars, offRec>>

\* 4) Set paid flag + account used
markPaidFlag(i, ok) ==
    /\ mp[i].pc = "flag"
    /\ LET c == mp[i] IN
        /\ dbPayments' = IF ok THEN [dbPayments EXCEPT ![c.pay].is_paid = TRUE,
                                                        ![c.pay].account_id = c.acct]
                               ELSE dbPayments
        /\ payments' = IF ok THEN [payments EXCEPT ![c.pay].is_paid = TRUE,
                                                    ![c.pay].account_id = c.acct]
                             ELSE payments
        /\ mp' = [mp EXCEPT ![i].pc = "done", ![i].allOk = @ /\ ok]
    /\ UNCHANGED <<recAccounts, paidExpenses, dbBalance, snaps, nRecOps, schedVars, offRec>>

RecQuiet ==
    /\ dbPayments = [p \in PayIds |->
                       IF p = 1
                       THEN [recurring_id |-> "r1", date |-> Day(1, 5), actual_amount |-> Null,
                             is_paid |-> FALSE, account_id |-> ""]
                       ELSE [recurring_id |-> "r2", date |-> Day(1, 12), actual_amount |-> <<3>>,
                             is_paid |-> FALSE, account_id |-> ""]]
    /\ payments = dbPayments
    /\ recAccounts = InitBal
    /\ paidExpenses = << >>
    /\ mp = [i \in MpSlots |-> MpIdle]
    /\ nRecOps = 0
    /\ dbRecurrings = InitRecurrings
    /\ recurrings = dbRecurrings
    /\ recMonth = 1
    /\ nTemplates = 0
    /\ nNav = 0

NextRecurring ==
    \/ \E p \in PayIds, v \in ActualInputs, ok \in BOOLEAN : updateActual(p, v, ok)
    \/ \E p \in PayIds, a \in Acct, proceed \in BOOLEAN : markPaidClick(p, a, proceed)
    \/ \E i \in MpSlots, ok \in BOOLEAN : markPaidDeduct(i, ok)
    \/ \E i \in MpSlots, ok \in BOOLEAN : markPaidSnapshot(i, ok)
    \/ \E i \in MpSlots, ok \in BOOLEAN : markPaidExpense(i, ok)
    \/ \E i \in MpSlots, ok \in BOOLEAN : markPaidFlag(i, ok)

\* ---- templates and their instances
Frequencies == {"Weekly", "Semi-Monthly", "Monthly", "Yearly"}
Horizon == 3                                 \* instances exist through month Horizon
StartInputs == {Day(0, 28), Day(1, 15)}
EndInputs == {Null, <<Day(2, 15)>>}
\* the id the store gives to the k-th template created
NewTemplateId(k) == CASE k = 1 -> "n1" [] k = 2 -> "n2" [] k = 3 -> "n3" [] OTHER -> "n4"

\* the calendar occurrences of a template: the dates on its schedule from its
\* start date through its end date (through the last month instances are kept
\* for when it has none); every month is taken to have 30 days
DayNumber(dt) == dt.mi * 30 + dt.d
Calendar == {Day(mi, d) : mi \in 0..Horizon, d \in 1..30}
OnSchedule(t, dt) ==
    CASE t.frequency = "Weekly" -> (DayNumber(dt) - DayNumber(t.start_date)) % 7 = 0
      [] t.frequency = "Semi-Monthly" ->
            dt.d = t.start_date.d
            \/ dt.d = (IF t.start_date.d + 15 > 30 THEN 30 ELSE t.start_date.d + 15)
      [] t.frequency = "Monthly" -> dt.d = t.start_date.d
      [] OTHER -> dt.d = t.start_date.d /\ dt.mi % 12 = t.start_date.mi % 12
OccurrenceDates(t) ==
    {dt \in Calendar : /\ DateLE(t.start_date, dt)
                       /\ (t.end_date = Null \/ DateLE(dt, t.end_date[1]))
                       /\ OnSchedule(t, dt)}

\* the store materializes the occurrences of an inserted template as
\* recurring_payments rows: unpaid, without actual amount or account
RECURSIVE Materialize(_, _, _, _)
Materialize(pays, rid, dates, id) ==
    IF dates = {} THEN pays
    ELSE LET dt == CHOOSE x \in dates : \A y \in dates : DateLE(x, y)
             row == [recurring_id |-> rid, date |-> dt, actual_amount |-> Null,
                     is_paid |-> FALSE, account_id |-> ""]
         IN  Materialize([k \in DOMAIN pays \cup {id} |-> IF k = id THEN row ELSE pays[k]],
                         rid, dates \ {dt}, id + 1)

NoRows == [k \in {} |-> NoPayment]

\* addRecurring: insert the template, then re-read recurrings and recurring_payments
addRecurring(amt, freq, startDate, endDate, cur, okInsert, okRecurrings, okPayments) ==
    /\ nTemplates < MaxTemplates
    /\ nTemplates' = nTemplates + 1
    /\ LET rid == NewTemplateId(nTemplates + 1)
           t == [amount |-> amt, currency |-> cur, frequency |-> freq,
                 start_date |-> startDate, end_date |-> endDate]
           first == Cardinality(DOMAIN dbPayments) + 1
       IN  IF ~okInsert
           THEN UNCHANGED <<dbRecurrings, dbPayments, recurrings, payments>>
           ELSE /\ dbRecurrings' = [k \in DOMAIN dbRecurrings \cup {rid} |->
                                       IF k = rid THEN t ELSE dbRecurrings[k]]
                /\ dbPayments' = Materialize(dbPayments, rid, OccurrenceDates(t), first)
                /\ recurrings' = IF okRecurrings THEN dbRecurrings'
                                 ELSE [k \in {} |-> t]
                /\ payments' = IF okPayments THEN dbPayments' ELSE NoRows
    /\ UNCHANGED <<recAccounts, paidExpenses, mp, nRecOps, recMonth, nNav, dbBalance, snaps, offRec>>

\* the month buttons: setMonth((m) => (m === 0 ? 11 : m - 1)) and its mirror
prevMonth ==
    /\ nNav < MaxNav
    /\ nNav' = nNav + 1
    /\ recMonth' = IF recMonth = 0 THEN 11 ELSE recMonth - 1
    /\ UNCHANGED <<dbPayments, payments, recAccounts, paidExpenses, mp, nRecOps,
                   dbRecurrings, recurrings, nTemplates, dbBalance, snaps, offRec>>

nextMonth ==
    /\ nNav < MaxNav
    /\ nNav' = nNav + 1
    /\ recMonth' = IF recMonth = 11 THEN 0 ELSE recMonth + 1
    /\ UNCHANGED <<dbPayments, payments, recAccounts, paidExpenses, mp, nRecOps,
                   dbRecurrings, recurrings, nTemplates, dbBalance, snaps, offRec>>

\* the outcome of a re-read the handler never reaches is left at TRUE
ReachedReload(okInsert, okRecurrings, okPayments) ==
    ~okInsert => (okRecurrings /\ okPayments)

NextSchedule ==
    \/ \E amt \in {1}, freq \in Frequencies, startDate \in StartInputs, endDate \in EndInputs,
          cur \in {"USD"}, okInsert \in BOOLEAN, okRecurrings \in BOOLEAN, okPayments \in BOOLEAN :
            /\ ReachedReload(okInsert, okRecurrings, okPayments)
            /\ addRecurring(amt, freq, startDate, endDate, cur, okInsert, okRecurrings, okPayments)
    \/ prevMonth
    \/ nextMonth

\* ================================================================ Cash Flow view

SnapBalances == {1, 3}
SnapDates == {Day(-4, 1), Day(1, 1), Day(1, 30)}
GroupBys == {"day", "week", "month"}
Currencies == {"USD", "CRC"}
Zones == {"west", "utc", "east"}
fxRate == 2

\* the rows account_balances can return: at most MaxSnaps, ordered by recorded_at
SnapLists ==
    {l \in UNION {[1..n -> [account_id : Acct, balance : SnapBalances, recorded_at : SnapDates]] :
                     n \in 0..MaxSnaps} :
        \A i \in 1..Len(l) - 1 : DateLE(l[i].recorded_at, l[i + 1].recorded_at)}

\* range: from the first day of the month five months back to the last day of
\* the current month
RangeStart == Day(today.mi - 5, 1)
RangeEnd == Day(today.mi, 30)

\* const d = new Date(s.recorded_at); d < range.start || d > range.end: the row's
\* date is midnight UTC, the ends of the range are midnights of the local zone
InRange(iso) ==
    CASE cfZone = "west" -> RangeStart # iso /\ DateLE(RangeStart, iso) /\ DateLE(iso, RangeEnd)
      [] cfZone = "east" -> DateLE(RangeStart, iso) /\ DateLE(iso, RangeEnd) /\ iso # RangeEnd
      [] OTHER -> DateLE(RangeStart, iso) /\ DateLE(iso, RangeEnd)

\* the local calendar day of new Date(iso)
LocalDay(iso) == IF cfZone = "west" THEN PrevDay(iso) ELSE iso

\* fmtPeriod(d, grp) for the local day dt: the day, its week (seven-day blocks,
\* day 1 of month 0 being a Monday) or its month
fmtPeriod(dt, grp) ==
    CASE grp = "day" -> <<"day", dt.mi, dt.d>>
      [] grp = "week" -> <<"week", (dt.mi * 30 + dt.d - 1) \div 7, 0>>
      [] OTHER -> <<"month", dt.mi, 0>>

\* the keys of `map`: the periods of every day from range.start through range.end
Periods == {fmtPeriod(Day(mi, d), cfGroupBy) : mi \in RangeStart.mi..RangeEnd.mi, d \in 1..30}

\* toBase(amt, currency), counted in units of 1/fxRate of the base currency so
\* that amt / fxRate stays a whole number
toBase(amt, currency) ==
    IF cfBase = currency THEN amt * fxRate
    ELSE IF currency = "CRC" /\ cfBase = "USD" THEN amt
    ELSE IF currency = "USD" /\ cfBase = "CRC" THEN amt * fxRate * fxRate
    ELSE amt * fxRate

Abs(x) == IF x < 0 THEN -x ELSE x

\* byAcc[a]: the in-range rows of account a, sorted by recorded_at
byAcc(a) == SelectSeq(cfSnaps, LAMBDA r : r.account_id = a /\ InRange(r.recorded_at))

Passes_earlier(a) ==
    LET arr == byAcc(a) IN
    [k \in 1..(IF Len(arr) = 0 THEN 0 ELSE Len(arr) - 1) |->
        [key |-> fmtPeriod(LocalDay(arr[k].recorded_at), cfGroupBy),
         delta |-> arr[k + 1].balance - arr[k].balance]]
\* the passes of the inner loop for account a: the period and the delta of every
\* pair of consecutive rows, the period being that of the later row
Passes(a) ==
    LET arr == byAcc(a) IN
    [k \in 1..(IF Len(arr) = 0 THEN 0 ELSE Len(arr) - 1) |->
        [key |-> fmtPeriod(LocalDay(arr[k + 1].recorded_at), cfGroupBy),
         delta |-> arr[k + 1].balance - arr[k].balance]]

RECURSIVE SumPasses(_, _, _, _)
SumPasses(ps, a, key, positive) ==
    IF ps = << >> THEN 0
    ELSE (IF Head(ps).key = key /\ ((Head(ps).delta >= 0) = positive)
          THEN toBase(Abs(Head(ps).delta), AcctCurrency(a)) ELSE 0)
         + SumPasses(Tail(ps), a, key, positive)

RECURSIVE SumOver(_, _)
SumOver(S, f) ==
    IF S = {} THEN 0 ELSE LET x == CHOOSE y \in S : TRUE IN f[x] + SumOver(S \ {x}, f)

\* map.set(fmtPeriod(cursor, groupBy), { inflow: 0, outflow: 0 }), and its net
NoFlow == [inflow |-> 0, outflow |-> 0, net |-> 0]

\* flowByPeriod_snap: inflow, outflow and net of every period of `map` (a pass
\* whose period is not a key of `map` is skipped)
flowByPeriod_snap ==
    LET passes == [a \in Acct |-> Passes(a)]
        touched == UNION {{passes[a][k].key : k \in DOMAIN passes[a]} : a \in Acct}
    IN
    [key \in Periods |->
        IF key \notin touched THEN NoFlow
        ELSE
        LET inflow == SumOver(Acct, [a \in Acct |-> SumPasses(passes[a], a, key, TRUE)])
            outflow == SumOver(Acct, [a \in Acct |-> SumPasses(passes[a], a, key, FALSE)])
        IN  [inflow |-> inflow, outflow |-> outflow, net |-> inflow - outflow]]

\* totals: the sums of inflow, outflow and net over the periods
totals ==
    LET flow == flowByPeriod_snap
        keys == {k \in DOMAIN flow : flow[k] # NoFlow}     \* the others add nothing
    IN  [inflow |-> SumOver(keys, [k \in keys |-> flow[k].inflow]),
         outflow |-> SumOver(keys, [k \in keys |-> flow[k].outflow]),
         net |-> SumOver(keys, [k \in keys |-> flow[k].net])]

\* load, run once when the view mounts: the view receives the account_balances rows
cfLoad(list) ==
    /\ cfSnaps = << >>
    /\ cfSnaps' = list
    /\ UNCHANGED <<cfGroupBy, cfBase, cfZone, offCf>>

setGroupBy(g) ==
    /\ g # cfGroupBy
    /\ cfGroupBy' = g
    /\ UNCHANGED <<cfSnaps, cfBase, cfZone, offCf>>

setBaseCurrency(c) ==
    /\ c # cfBase
    /\ cfBase' = c
    /\ UNCHANGED <<cfSnaps, cfGroupBy, cfZone, offCf>>

CfQuiet ==
    /\ cfSnaps = << >>
    /\ cfGroupBy = "month"
    /\ cfBase = "USD"

NextCashFlow ==
    \/ \E list \in (IF cfSnaps = << >> THEN SnapLists ELSE {}) : cfLoad(list)
    \/ \E g \in GroupBys : setGroupBy(g)
    \/ \E c \in Currencies : setBaseCurrency(c)

\* ================================================================ specifications

\* ================================================================ budget
\* BudgetModule: the budget lines of the displayed month and what was spent
\* against each of them.

BudgetAcct == Acct \cup {"S"}          \* S: a second USD account
BudgetCurrency(a) == IF a = "S" THEN "USD" ELSE AcctCurrency(a)
BudgetCategories == {"Food"}
PlannedInputs == {2}

\* the expenses rows of the year: id, category_id, account_id (either may be
\* null), amount and the month of `date`
BudgetExpense(id, cat, acct, amt, mo) ==
    [id |-> id, category_id |-> cat, account_id |-> acct, amount |-> amt, month |-> mo]
dbBudgetExpenses ==
    { BudgetExpense(1, <<"Food">>, <<"A">>, 1, 1),
      BudgetExpense(2, <<"Food">>, <<"S">>, 2, 1),
      BudgetExpense(3, <<"Food">>, <<"B">>, 1, 1),
      BudgetExpense(4, <<"Food">>, <<"A">>, 1, 0),
      BudgetExpense(5, Null, Null, 1, 1) }

\* .gte("date", startISO).lte("date", endISO)
ExpensesOfMonth(mo) == {e \in dbBudgetExpenses : e.month = mo}
\* .eq("month", monthISO).order("created_at")
ItemsOfMonth(items, mo) == SelectSeq(items, LAMBDA bi : bi.month = mo)

\* acc?.currency ?? "USD" for accounts.find((a) => a.id === e.account_id)
ExpenseCurrency(e) ==
    IF e.account_id # Null /\ e.account_id[1] \in bgAccounts
    THEN BudgetCurrency(e.account_id[1]) ELSE "USD"

\* `${category_id || "uncat"}|${currency}`
BudgetKey(cat, currency) == <<IF cat = Null THEN "uncat" ELSE cat[1], currency>>

\* actualByCategoryCurrency.get(key) ?? 0
actualByCategoryCurrency(key) ==
    LET hit == {e \in bgExpenses : BudgetKey(e.category_id, ExpenseCurrency(e)) = key}
    IN  SumOver(hit, [e \in hit |-> e.amount])

rolloverForItem(bi) == 0

\* rows (before sorting by name): every budget line with its actual, planned
\* total, remaining amount and status
budgetRows ==
    [i \in DOMAIN budgetItems |->
        LET bi == budgetItems[i]
            actual == actualByCategoryCurrency(BudgetKey(bi.category_id, bi.currency))
            plannedTotal == bi.amount + rolloverForItem(bi)
        IN  [bi |-> bi, actual |-> actual, plannedTotal |-> plannedTotal,
             remaining |-> plannedTotal - actual,
             status |-> IF plannedTotal > 0 /\ actual >= plannedTotal THEN "over"
                        ELSE IF plannedTotal > 0 /\ 100 * actual >= 80 * plannedTotal
                        THEN "near" ELSE "ok"]]

\* the load effect resolves: each query either returns its rows or fails
\* (`x.data || []`)
budgetLoad(okAcc, okExp, okItems) ==
    /\ bgLoading
    /\ bgAccounts' = IF okAcc THEN BudgetAcct ELSE {}
    /\ bgExpenses' = IF okExp THEN ExpensesOfMonth(bgMonth) ELSE {}
    /\ budgetItems' = IF okItems THEN ItemsOfMonth(dbBudgetItems, bgMonth) ELSE << >>
    /\ bgLoading' = FALSE
    /\ UNCHANGED <<dbBudgetItems, bgMonth, nBudgetOps, offBudget>>

\* the month buttons; the change of monthISO runs the load effect again
budgetPrevMonth ==
    /\ ~bgLoading /\ nBudgetOps < MaxBudgetOps
    /\ bgMonth' = IF bgMonth = 0 THEN 11 ELSE bgMonth - 1
    /\ bgLoading' = TRUE
    /\ nBudgetOps' = nBudgetOps + 1
    /\ UNCHANGED <<dbBudgetItems, budgetItems, bgExpenses, bgAccounts, offBudget>>

budgetNextMonth ==
    /\ ~bgLoading /\ nBudgetOps < MaxBudgetOps
    /\ bgMonth' = IF bgMonth = 11 THEN 0 ELSE bgMonth + 1
    /\ bgLoading' = TRUE
    /\ nBudgetOps' = nBudgetOps + 1
    /\ UNCHANGED <<dbBudgetItems, budgetItems, bgExpenses, bgAccounts, offBudget>>

NewBudgetId == Len(dbBudgetItems) + nBudgetOps + 1

\* saveItem: `editing` is null (insert) or the line being edited (update)
saveItem(editing, cat, amt, cur, acct, okWrite, okRead) ==
    /\ ~bgLoading /\ nBudgetOps < MaxBudgetOps
    /\ editing # Null => \E i \in DOMAIN budgetItems : budgetItems[i].id = editing[1]
    /\ nBudgetOps' = nBudgetOps + 1
    /\ LET payload(id) == [id |-> id, category_id |-> cat, month |-> bgMonth, amount |-> amt,
                           currency |-> cur, account_id |-> acct]
           written ==
               IF editing # Null
               THEN [i \in DOMAIN dbBudgetItems |->
                        IF dbBudgetItems[i].id = editing[1] THEN payload(editing[1])
                        ELSE dbBudgetItems[i]]
               ELSE Append(dbBudgetItems, payload(NewBudgetId))
       IN  IF ~okWrite
           THEN UNCHANGED <<dbBudgetItems, budgetItems>>
           ELSE /\ dbBudgetItems' = written
                /\ budgetItems' = IF okRead THEN ItemsOfMonth(written, bgMonth) ELSE << >>
    /\ UNCHANGED <<bgExpenses, bgAccounts, bgMonth, bgLoading, offBudget>>

\* deleteItem(id)
deleteItem(id, confirmed, ok) ==
    /\ ~bgLoading /\ nBudgetOps < MaxBudgetOps
    /\ \E i \in DOMAIN budgetItems : budgetItems[i].id = id
    /\ nBudgetOps' = nBudgetOps + 1
    /\ IF confirmed /\ ok
       THEN /\ dbBudgetItems' = SelectSeq(dbBudgetItems, LAMBDA b : b.id # id)
            /\ budgetItems' = SelectSeq(budgetItems, LAMBDA b : b.id # id)
       ELSE UNCHANGED <<dbBudgetItems, budgetItems>>
    /\ UNCHANGED <<bgExpenses, bgAccounts, bgMonth, bgLoading, offBudget>>

BudgetQuiet ==
    /\ dbBudgetItems = << >>
    /\ budgetItems = << >>
    /\ bgExpenses = {}
    /\ bgAccounts = {}
    /\ bgLoading = TRUE
    /\ nBudgetOps = 0

NextBudget ==
    \/ \E okAcc, okExp, okItems \in BOOLEAN : budgetLoad(okAcc, okExp, okItems)
    \/ budgetPrevMonth
    \/ budgetNextMonth
    \/ \E editing \in {Null} \cup {<<id>> : id \in 1..(2 * MaxBudgetOps)},
          cat \in {Null} \cup {<<c>> : c \in BudgetCategories},
          amt \in PlannedInputs, cur \in Currencies,
          acct \in {Null} \cup {<<a>> : a \in {"A", "S"}},
          okWrite, okRead \in BOOLEAN :
          saveItem(editing, cat, amt, cur, acct, okWrite, okRead)
    \/ \E id \in 1..(2 * MaxBudgetOps), confirmed, ok \in BOOLEAN : deleteItem(id, confirmed, ok)


\* ================================================================ page
\* Welcome (the page) and the Sidebar it renders.

menuItems == <<"Dashboard", "Accounts", "Transactions", "Cash Flow", "Reports",
               "Budget", "Recurring", "Goals", "Investments", "Settings">>
Pages == {menuItems[i] : i \in DOMAIN menuItems}
Emails == {"u1", "u2", "u3"}

isPage(value) == \E i \in DOMAIN menuItems : menuItems[i] = value

\* the props Welcome hands to Sidebar: its own state and its own setter
SidebarProps == [selected |-> <<selected>>, setSelected |-> TRUE]

\* the Sidebar is on screen: the session was looked up and there is one
SidebarShown == ~loading /\ email # Null

currentSelected ==
    IF SidebarProps.selected # Null /\ isPage(SidebarProps.selected[1])
    THEN SidebarProps.selected[1] ELSE internalSelected

\* what <main> (or the early returns) render
Rendered ==
    IF loading THEN {"Cargando"}
    ELSE IF email = Null THEN {"Auth"}
    ELSE {menuItems[i] : i \in {j \in DOMAIN menuItems : selected = menuItems[j]}}

changeSelected_internal(value) ==
    /\ internalSelected' = value
    /\ UNCHANGED selected
changeSelected(value) ==
    IF SidebarProps.setSelected
    THEN /\ selected' = value
         /\ UNCHANGED internalSelected
    ELSE /\ internalSelected' = value
         /\ UNCHANGED selected

\* a menu item (or the logo, for Dashboard) is clicked
clickItem(name) ==
    /\ SidebarShown
    /\ changeSelected(name)
    /\ UNCHANGED <<loading, email, collapsed, isLoggingOut, offPage>>

toggleCollapsed ==
    /\ SidebarShown
    /\ collapsed' = ~collapsed
    /\ UNCHANGED <<selected, loading, email, internalSelected, isLoggingOut, offPage>>

\* supabase.auth.getSession() resolves
sessionLoaded(e) ==
    /\ loading
    /\ email' = e
    /\ loading' = FALSE
    /\ UNCHANGED <<selected, internalSelected, collapsed, isLoggingOut, offPage>>

\* onAuthStateChange: login or logout; without a session Welcome renders Auth
\* and the Sidebar unmounts, so that its state starts afresh at the next login
authChanged(e) ==
    /\ e # email
    /\ email' = e
    /\ IF e = Null
       THEN internalSelected' = "Dashboard" /\ collapsed' = FALSE /\ isLoggingOut' = FALSE
       ELSE UNCHANGED <<internalSelected, collapsed, isLoggingOut>>
    /\ UNCHANGED <<selected, loading, offPage>>

\* handleLogout up to the await of onLogout()
logoutClick ==
    /\ SidebarShown /\ ~isLoggingOut
    /\ isLoggingOut' = TRUE
    /\ UNCHANGED <<selected, loading, email, internalSelected, collapsed, offPage>>

\* handleLogout: finally
logoutSettled ==
    /\ SidebarShown /\ isLoggingOut
    /\ isLoggingOut' = FALSE
    /\ UNCHANGED <<selected, loading, email, internalSelected, collapsed, offPage>>

PageQuiet ==
    /\ selected = "Dashboard"
    /\ loading = TRUE
    /\ email = Null
    /\ internalSelected = "Dashboard"
    /\ collapsed = FALSE
    /\ isLoggingOut = FALSE

NextPage ==
    \/ \E name \in Pages : clickItem(name)
    \/ toggleCollapsed
    \/ \E e \in {Null} \cup {<<u>> : u \in Emails} : sessionLoaded(e)
    \/ \E e \in {Null} \cup {<<u>> : u \in Emails} : authChanged(e)
    \/ logoutClick
    \/ logoutSettled


\* ================================================================ Goals forms
\* The goal modal (saveGoal), the Close button (closeGoal) and the contribution
\* modal (saveContrib) of the Goals view, with the backend calls each handler
\* issues and the alerts it displays.

NewGoalId == "g3"
NameInputs == {"", "trip"}
TargetInputs == {0, 5}
GoalDateInputs == {Day(3, 1)}
MonthlyInputs == {1}
FormContribAmts == {0, 2}

NoForm == [kind |-> "none", outcome |-> "ok"]
offFormsData == <<today, tzWest, lastOp, ledger, nGoalOps, offForms>>

\* no modal covers the cards
CardsShown == ~showGoalModal /\ ~showContribModal

openCreate ==
    /\ CardsShown
    /\ editingGoal' = Null
    /\ showGoalModal' = TRUE
    /\ UNCHANGED <<showContribModal, selectedGoal, closedGoals, dbClosedGoals, goalCalls,
                   goalAlerts, formLast, nFormOps, dbGoals, dbContribs, goals, contribs,
                   offFormsData>>

openEdit(g) ==
    /\ CardsShown
    /\ g \in DOMAIN goals /\ g \notin closedGoals
    /\ editingGoal' = <<g>>
    /\ showGoalModal' = TRUE
    /\ UNCHANGED <<showContribModal, selectedGoal, closedGoals, dbClosedGoals, goalCalls,
                   goalAlerts, formLast, nFormOps, dbGoals, dbContribs, goals, contribs,
                   offFormsData>>

\* Cancel, or the modal's onClose
cancelGoal ==
    /\ showGoalModal
    /\ showGoalModal' = FALSE
    /\ UNCHANGED <<editingGoal, showContribModal, selectedGoal, closedGoals, dbClosedGoals,
                   goalCalls, goalAlerts, formLast, nFormOps, dbGoals, dbContribs, goals,
                   contribs, offFormsData>>

\* whether the modal is shown once the handler has ended: an error or a rejected
\* form returns before setShow...Modal(false)
ModalAfter_closed(shown, completed) == FALSE
ModalAfter(shown, completed) == IF completed THEN FALSE ELSE shown

\* the goals rows as select("*").order("created_at") returns them
GoalsWritten(id, payload) ==
    [g \in DOMAIN dbGoals \cup {id} |-> IF g = id THEN payload ELSE dbGoals[g]]

\* saveGoal, from the open goal modal
saveGoal(name, target, date, monthly, okWrite, okSelect) ==
    /\ showGoalModal
    /\ nFormOps < MaxFormOps
    /\ editingGoal = Null => NewGoalId \notin DOMAIN dbGoals
    /\ nFormOps' = nFormOps + 1
    /\ LET payload == [target_amount |-> target, target_date |-> date,
                       monthly_contribution |-> monthly]
           id == IF editingGoal # Null THEN editingGoal[1] ELSE NewGoalId
           write == <<IF editingGoal # Null THEN "update" ELSE "insert", "goals">>
       IN
       IF name = "" \/ target = 0
       THEN /\ goalCalls' = << >>
            /\ goalAlerts' = <<"Completa nombre, meta y fecha">>
            /\ formLast' = [kind |-> "saveGoal", outcome |-> "invalid"]
            /\ showGoalModal' = ModalAfter(showGoalModal, FALSE)
            /\ UNCHANGED <<dbGoals, goals>>
       ELSE IF ~okWrite
       THEN /\ goalCalls' = <<write>>
            /\ goalAlerts' = <<"error.message">>
            /\ formLast' = [kind |-> "saveGoal", outcome |-> "failed"]
            /\ showGoalModal' = ModalAfter(showGoalModal, FALSE)
            /\ UNCHANGED <<dbGoals, goals>>
       ELSE /\ dbGoals' = GoalsWritten(id, payload)
            /\ goals' = IF okSelect THEN GoalsWritten(id, payload) ELSE << >>
            /\ goalCalls' = <<write, <<"select", "goals">> >>
            /\ goalAlerts' = << >>
            /\ formLast' = [kind |-> "saveGoal", outcome |-> "ok"]
            /\ showGoalModal' = ModalAfter(showGoalModal, TRUE)
    /\ UNCHANGED <<editingGoal, showContribModal, selectedGoal, closedGoals, dbClosedGoals,
                   dbContribs, contribs, offFormsData>>

\* closeGoal(id), the Close button of a card
closeGoal(id, ok) ==
    /\ CardsShown
    /\ nFormOps < MaxFormOps
    /\ id \in DOMAIN goals /\ id \notin closedGoals
    /\ nFormOps' = nFormOps + 1
    /\ goalCalls' = << <<"update", "goals">> >>
    /\ IF ok
       THEN /\ dbClosedGoals' = dbClosedGoals \cup {id}
            /\ closedGoals' = closedGoals \cup {id}
            /\ goalAlerts' = << >>
            /\ formLast' = [kind |-> "closeGoal", outcome |-> "ok"]
       ELSE /\ goalAlerts' = <<"error.message">>
            /\ formLast' = [kind |-> "closeGoal", outcome |-> "failed"]
            /\ UNCHANGED <<dbClosedGoals, closedGoals>>
    /\ UNCHANGED <<showGoalModal, editingGoal, showContribModal, selectedGoal,
                   dbGoals, dbContribs, goals, contribs, offFormsData>>

\* openContrib(g, sign): Add deposit or Withdraw of a card
openContrib(g) ==
    /\ CardsShown
    /\ g \in DOMAIN goals /\ g \notin closedGoals
    /\ selectedGoal' = <<g>>
    /\ showContribModal' = TRUE
    /\ UNCHANGED <<showGoalModal, editingGoal, closedGoals, dbClosedGoals, goalCalls,
                   goalAlerts, formLast, nFormOps, dbGoals, dbContribs, goals, contribs,
                   offFormsData>>

cancelContrib ==
    /\ showContribModal
    /\ showContribModal' = FALSE
    /\ UNCHANGED <<showGoalModal, editingGoal, selectedGoal, closedGoals, dbClosedGoals,
                   goalCalls, goalAlerts, formLast, nFormOps, dbGoals, dbContribs, goals,
                   contribs, offFormsData>>

\* saveContrib(sign), from the open contribution modal
saveContribInModal(sign, amt, date, okInsert, okSelect, okUpdate) ==
    /\ showContribModal /\ selectedGoal # Null
    /\ nFormOps < MaxFormOps
    /\ nFormOps' = nFormOps + 1
    /\ LET goalId == selectedGoal[1]
           payload == [goal_id |-> goalId, amount |-> ContribAmount(amt, sign), date |-> date]
       IN
       IF payload.amount = 0
       THEN /\ goalCalls' = << >>
            /\ goalAlerts' = <<"Monto requerido">>
            /\ formLast' = [kind |-> "saveContrib", outcome |-> "invalid"]
            /\ showContribModal' = ModalAfter(showContribModal, FALSE)
            /\ UNCHANGED <<dbGoals, dbContribs, goals, contribs>>
       ELSE IF ~okInsert
       THEN /\ goalCalls' = << <<"insert", "goal_contributions">> >>
            /\ goalAlerts' = <<"error.message">>
            /\ formLast' = [kind |-> "saveContrib", outcome |-> "failed"]
            /\ showContribModal' = ModalAfter(showContribModal, FALSE)
            /\ UNCHANGED <<dbGoals, dbContribs, goals, contribs>>
       ELSE LET stored == InsertByDate(dbContribs, payload)
                reloaded == IF okSelect THEN stored ELSE << >>
                rebalanced == sign = 1 /\ goalId \in DOMAIN goals
                newMonthly == rebalanceGoalMonthly(goalId, goals[goalId],
                                  ListSeenByRebalance(contribs, reloaded), today, tzWest)
                updated == rebalanced /\ okUpdate
            IN  /\ dbContribs' = stored
                /\ contribs' = reloaded
                /\ dbGoals' = IF updated
                              THEN [dbGoals EXCEPT ![goalId].monthly_contribution = newMonthly]
                              ELSE dbGoals
                /\ goals' = IF updated
                            THEN [goals EXCEPT ![goalId].monthly_contribution = newMonthly]
                            ELSE goals
                /\ goalCalls' = << <<"insert", "goal_contributions">>,
                                   <<"select", "goal_contributions">> >>
                                \o (IF rebalanced THEN << <<"update", "goals">> >> ELSE << >>)
                /\ goalAlerts' = << >>
                /\ formLast' = [kind |-> "saveContrib", outcome |-> "ok"]
                /\ showContribModal' = ModalAfter(showContribModal, TRUE)
    /\ UNCHANGED <<showGoalModal, editingGoal, selectedGoal, closedGoals, dbClosedGoals,
                   offFormsData>>

\* the outcome of a backend call the handler never reaches is left at TRUE
ReachedGoal(name, target, okWrite, okSelect) ==
    (name = "" \/ target = 0 \/ ~okWrite) => okSelect
ReachedContrib(sign, amt, okInsert, okSelect, okUpdate) ==
    /\ (amt = 0 \/ ~okInsert) => okSelect
    /\ (amt = 0 \/ ~okInsert \/ sign # 1) => okUpdate

FormsQuiet ==
    /\ showGoalModal = FALSE
    /\ editingGoal = Null
    /\ showContribModal = FALSE
    /\ selectedGoal = Null
    /\ closedGoals = {}
    /\ dbClosedGoals = {}
    /\ goalCalls = << >>
    /\ goalAlerts = << >>
    /\ formLast = NoForm
    /\ nFormOps = 0

NextGoalForms ==
    \/ openCreate
    \/ \E g \in GoalIds \cup {NewGoalId} : openEdit(g)
    \/ cancelGoal
    \/ \E name \in NameInputs, target \in TargetInputs, date \in GoalDateInputs,
          monthly \in MonthlyInputs, okWrite, okSelect \in BOOLEAN :
            /\ ReachedGoal(name, target, okWrite, okSelect)
            /\ saveGoal(name, target, date, monthly, okWrite, okSelect)
    \/ \E id \in GoalIds \cup {NewGoalId}, ok \in BOOLEAN : closeGoal(id, ok)
    \/ \E g \in GoalIds \cup {NewGoalId} : openContrib(g)
    \/ cancelContrib
    \/ \E sign \in {1, -1}, amt \in FormContribAmts, date \in ContribDates,
          okInsert, okSelect, okUpdate \in BOOLEAN :
            /\ ReachedContrib(sign, amt, okInsert, okSelect, okUpdate)
            /\ saveContribInModal(sign, amt, date, okInsert, okSelect, okUpdate)


AccountsQuiet ==
    /\ dbBalance = InitBal
    /\ snaps = InitialSnaps
    /\ accView = InitBal
    /\ xfer = XferIdle
    /\ refreshPending = FALSE
    /\ wlog = << >>
    /\ nOps = 0

SessionsQuiet ==
    /\ cache = [s \in Sessions |-> InitBal]
    /\ inflight = [s \in Sessions |-> NoWrite]
    /\ arrivals = << >>

Clock ==
    /\ today = Day(1, 20)
    /\ tzWest \in BOOLEAN

\* the previous / next month buttons of the four views
NextMonths ==
    \/ \E offset \in {-1, 1} : changeMonth(offset)
    \/ dashPrevMonth
    \/ dashNextMonth
    \/ prevMonth
    \/ nextMonth
    \/ budgetPrevMonth
    \/ budgetNextMonth
    \/ \E okAcc \in BOOLEAN, okExp \in BOOLEAN, okItems \in BOOLEAN :
          budgetLoad(okAcc, okExp, okItems)

InitAccounts ==
    /\ AccountsQuiet /\ SessionsQuiet /\ GoalsQuiet /\ TxQuiet /\ RecQuiet /\ CfQuiet
    /\ BudgetQuiet /\ PageQuiet /\ FormsQuiet /\ NavQuiet
    /\ today = Day(1, 20) /\ tzWest = FALSE /\ cfZone = "utc"
    /\ bgMonth = today.mi
SpecAccounts == InitAccounts /\ [][NextAccounts]_vars

InitSessions == InitAccounts
SpecSessions == InitSessions /\ [][NextSessions]_vars

InitGoals ==
    /\ AccountsQuiet /\ SessionsQuiet /\ GoalsQuiet /\ TxQuiet /\ RecQuiet /\ CfQuiet
    /\ BudgetQuiet /\ PageQuiet /\ FormsQuiet /\ NavQuiet
    /\ Clock /\ cfZone = "utc"
    /\ bgMonth = today.mi
SpecGoals == InitGoals /\ [][NextGoals]_vars

InitTx == InitAccounts
SpecTx == InitTx /\ [][NextTx]_vars

InitTable ==
    /\ AccountsQuiet /\ SessionsQuiet /\ GoalsQuiet /\ TableQuiet /\ RecQuiet /\ CfQuiet
    /\ BudgetQuiet /\ PageQuiet /\ FormsQuiet /\ NavQuiet
    /\ today = Day(1, 20) /\ tzWest = FALSE /\ cfZone = "utc"
    /\ bgMonth = today.mi
SpecTable == InitTable /\ [][NextTable]_vars

InitUndo == InitAccounts
SpecUndo == InitUndo /\ [][NextUndo]_vars

InitMonths == InitAccounts
SpecMonths == InitMonths /\ [][NextMonths]_vars

InitImport == InitAccounts
SpecImport == InitImport /\ [][NextImport]_vars

InitRecurring == InitAccounts
SpecRecurring == InitRecurring /\ [][NextRecurring]_vars

InitSchedule == InitAccounts
SpecSchedule == InitSchedule /\ [][NextSchedule]_vars

InitCashFlow ==
    /\ AccountsQuiet /\ SessionsQuiet /\ GoalsQuiet /\ TxQuiet /\ RecQuiet /\ CfQuiet
    /\ BudgetQuiet /\ PageQuiet /\ FormsQuiet /\ NavQuiet
    /\ today = Day(1, 20) /\ cfZone \in Zones /\ tzWest = (cfZone = "west")
    /\ bgMonth = today.mi
SpecCashFlow == InitCashFlow /\ [][NextCashFlow]_vars

InitBudget == InitAccounts
SpecBudget == InitBudget /\ [][NextBudget]_vars

InitGoalForms == InitAccounts
SpecGoalForms == InitGoalForms /\ [][NextGoalForms]_vars

InitPage == InitAccounts
SpecPage == InitPage /\ [][NextPage]_vars

Spec == SpecAccounts

\* ================================================================ properties

Range(s) == {s[i] : i \in 1..Len(s)}
RowsSince(s, n) == [i \in 1..(Len(s) - n) |-> s[n + i]]
Occurrences(s, x) == Cardinality({i \in 1..Len(s) : s[i] = x})

\* C1: Quick Transfer, success case.  When the handler has finished and both
\* balance updates were applied, the stored balance of `from` is from.balance - amt,
\* the stored balance of `to` is to.balance + amt, their sum equals
\* from.balance + to.balance, and the handler issued exactly one snapshot insert per
\* account carrying the new balance; the rows the store accepted are the rows added
\* to account_balances since the click, in the order source, destination.
C1_TransferSuccess ==
    (xfer.pc = "done" /\ xfer.debitOk /\ xfer.creditOk) =>
        LET nf == xfer.fromBal - xfer.amt
            nt == xfer.toBal + xfer.amt
        IN  /\ dbBalance[xfer.from] = nf
            /\ dbBalance[xfer.to] = nt
            /\ dbBalance[xfer.from] + dbBalance[xfer.to] = xfer.fromBal + xfer.toBal
            /\ Occurrences(wlog, <<"snapshot", xfer.from, nf>>) = 1
            /\ Occurrences(wlog, <<"snapshot", xfer.to, nt>>) = 1
            /\ Cardinality({i \in 1..Len(wlog) : wlog[i][1] = "snapshot"}) = 2
            /\ RowsSince(snaps, xfer.snapsAt) =
                   (IF xfer.debitSnapOk THEN << <<xfer.from, nf>> >> ELSE << >>)
                   \o (IF xfer.creditSnapOk THEN << <<xfer.to, nt>> >> ELSE << >>)

C1_Witness ==
    /\ xfer.pc = "done" /\ xfer.debitOk /\ xfer.creditOk
    /\ xfer.debitSnapOk /\ xfer.creditSnapOk
    /\ xfer.amt > 0
    /\ Len(snaps) = xfer.snapsAt + 2

\* C2: no transactional guarantee.  When the destination update was rejected after
\* the source debit was applied, the finished handler leaves the debit stored
\* (source at from.balance - amt, destination at its value before the click), the
\* debit's snapshot stays in account_balances, and the only writes the handler
\* issued are the debit, its snapshot and the rejected credit: nothing rolls the
\* debit back.
C2_NoRollback ==
    (xfer.pc = "done" /\ xfer.debitOk /\ ~xfer.creditOk) =>
        LET nf == xfer.fromBal - xfer.amt
            nt == xfer.toBal + xfer.amt
        IN  /\ dbBalance[xfer.from] = nf
            /\ dbBalance[xfer.to] = xfer.toBefore
            /\ wlog = << <<"update", xfer.from, nf>>, <<"snapshot", xfer.from, nf>>,
                         <<"update", xfer.to, nt>> >>
            /\ RowsSince(snaps, xfer.snapsAt) =
                   (IF xfer.debitSnapOk THEN << <<xfer.from, nf>> >> ELSE << >>)

\* money left the source and never reached the destination, and the view has
\* already been refreshed from the store
C2_Witness ==
    /\ xfer.pc = "done" /\ xfer.debitOk /\ ~xfer.creditOk
    /\ xfer.amt > 0
    /\ xfer.fromBal = xfer.fromBefore
    /\ dbBalance[xfer.from] + dbBalance[xfer.to] = xfer.fromBefore + xfer.toBefore - xfer.amt
    /\ ~refreshPending
    /\ accView = dbBalance

\* C3: last write wins.  Every applied balance write carries the absolute value its
\* session computed from its own cached row (cached -/+ amount), and the stored
\* balance of an account equals the value of the write to it that arrived last,
\* whatever the earlier writes were; a write is applied or fails on its own, it is
\* never merged with the stored value.
LastArrival(a) ==
    LET idx == {i \in 1..Len(arrivals) : arrivals[i].acct = a}
    IN  arrivals[CHOOSE i \in idx : \A j \in idx : j <= i]

C3_LastWriteWins ==
    /\ \A i \in 1..Len(arrivals) :
          arrivals[i].value = NewBalance(arrivals[i].kind, arrivals[i].base, arrivals[i].amt)
    /\ \A a \in Acct :
          IF \E i \in 1..Len(arrivals) : arrivals[i].acct = a
          THEN dbBalance[a] = LastArrival(a).value
          ELSE dbBalance[a] = InitBal[a]

\* two sessions charged an expense to the same account, both writes were applied,
\* and the stored balance reflects only the second one: the first update is lost
C3_Witness ==
    /\ Len(arrivals) = 2
    /\ arrivals[1].by # arrivals[2].by
    /\ arrivals[1].acct = arrivals[2].acct
    /\ arrivals[1].kind = "expense" /\ arrivals[2].kind = "expense"
    /\ arrivals[1].amt > 0 /\ arrivals[2].amt > 0
    /\ dbBalance[arrivals[1].acct] = InitBal[arrivals[1].acct] - arrivals[2].amt

\* ---------------------------------------------------------------- goals
\* The rebalance as the specification words it, over the goal row g and the
\* contribution list `list`, with quotients taken by search rather than by division.
Quot == -40..40
CeilOf(a, b) == CHOOSE n \in Quot : n * b >= a /\ (n - 1) * b < a
FloorOf(a, b) == CHOOSE n \in Quot : n * b <= a /\ (n + 1) * b > a
RoundOf(a, b) == CHOOSE n \in Quot : 2 * n * b <= 2 * a + b /\ 2 * (n + 1) * b > 2 * a + b
AtLeast(lo, x) == IF x < lo THEN lo ELSE x
Mine(list, goalId) == {i \in 1..Len(list) : list[i].goal_id = goalId}

RECURSIVE Total(_, _)
Total(list, idx) ==
    IF idx = {} THEN 0
    ELSE LET i == CHOOSE j \in idx : TRUE IN list[i].amount + Total(list, idx \ {i})

StatedSaved(goalId, list) == Total(list, Mine(list, goalId))

StatedAverage(goalId, list, west) ==
    LET idx == Mine(list, goalId) IN
    IF idx = {} THEN 0
    ELSE LET first == list[CHOOSE i \in idx : \A j \in idx : DateLE(list[i].date, list[j].date)].date
             last == list[CHOOSE i \in idx : \A j \in idx : DateLE(list[j].date, list[i].date)].date
         IN  RoundOf(Total(list, idx),
                     AtLeast(1, monthsBetween(ParseDate(first, west), ParseDate(last, west)) + 1))

StatedMonthsExcl(g, now, west) ==
    AtLeast(1, monthsBetween(Day(now.mi + 1, 1), ParseDate(g.target_date, west)) + 1)

StatedMonthly(goalId, g, list, now, west) ==
    LET saved == StatedSaved(goalId, list)
        remaining == AtLeast(0, g.target_amount - saved)
        monthsLeft == AtLeast(1, monthsBetween(now, ParseDate(g.target_date, west)))
        suggested == CeilOf(remaining, monthsLeft)
        avg == StatedAverage(goalId, list, west)
        baseline == IF g.monthly_contribution # 0 THEN g.monthly_contribution
                    ELSE IF avg # 0 THEN avg ELSE suggested
        c == Total(list, {i \in Mine(list, goalId) : list[i].date.mi = now.mi})
        m == StatedMonthsExcl(g, now, west)
        delta == baseline - c
        adj == IF delta > 0 THEN CeilOf(delta, m) ELSE IF delta < 0 THEN FloorOf(delta, m) ELSE 0
    IN  AtLeast(0, baseline + adj)

\* C4: the rebalance that runs after a saved deposit sends, as monthly_contribution,
\* max(0, baseline + adj) computed as stated from the goal row and the contribution
\* list the handler holds; when the update is applied the stored and the local goal
\* carry that value, and when it is rejected the local goal is left as it was.
C4_RebalanceFormula ==
    (lastOp.kind = "contrib" /\ lastOp.inserted /\ lastOp.sign = 1) =>
        LET v == StatedMonthly(lastOp.goal, lastOp.goalBefore, lastOp.held, today, tzWest) IN
            /\ lastOp.sent = v
            /\ lastOp.persisted =>
                  /\ dbGoals[lastOp.goal].monthly_contribution = v
                  /\ goals[lastOp.goal].monthly_contribution = v
            /\ ~lastOp.persisted => goals[lastOp.goal] = lastOp.goalBefore

\* a persisted rebalance over a non-empty list with a contribution in the current
\* month, which changed the plan
C4_Witness ==
    /\ lastOp.kind = "contrib" /\ lastOp.inserted /\ lastOp.sign = 1 /\ lastOp.persisted
    /\ \E i \in 1..Len(lastOp.held) :
          lastOp.held[i].goal_id = lastOp.goal /\ lastOp.held[i].date.mi = today.mi
    /\ lastOp.sent # lastOp.goalBefore.monthly_contribution
    /\ lastOp.sent > 0

\* C5: the rebalance that follows a saved deposit counts that deposit: the
\* monthly_contribution it persists is the rebalance of the stored contribution
\* list, which includes the new deposit.
C5_RebalanceCountsDeposit ==
    (lastOp.kind = "contrib" /\ lastOp.inserted /\ lastOp.sign = 1 /\ lastOp.persisted) =>
        dbGoals[lastOp.goal].monthly_contribution =
            StatedMonthly(lastOp.goal, lastOp.goalBefore, dbContribs, today, tzWest)

\* C6: a card shows On track exactly when saved + rebalancedNextMonthly x
\* monthsLeftExclCurrent >= target_amount, with rebalancedNextMonthly the stated
\* rebalance of the view's goal row and contribution list.
C6_OnTrack ==
    \A goalId \in GoalIds :
        rows(goalId).onTrack <=>
            (StatedSaved(goalId, contribs)
               + StatedMonthly(goalId, goals[goalId], contribs, today, tzWest)
                 * StatedMonthsExcl(goals[goalId], today, tzWest)
             >= goals[goalId].target_amount)

\* one card On track exactly at its target, the other At risk, with contributions loaded
C6_Witness ==
    /\ contribs # << >>
    /\ \E a \in GoalIds, b \in GoalIds :
          /\ rows(a).onTrack
          /\ rows(a).saved + rows(a).rebalancedNextMonthly * rows(a).monthsLeftExclCurrent
                = goals[a].target_amount
          /\ ~rows(b).onTrack

\* C7: contributions are signed entries.  Deposit stores the typed amount, Withdraw
\* its negation; a zero amount is rejected and nothing is written; and the saved
\* total of every goal, over the stored rows, is the sum of the signed amounts of
\* the movements saved for it (the view holds the stored rows, or none after a
\* failed reload).
C7_SignedContributions ==
    /\ \A goalId \in GoalIds : savedFor(dbContribs, goalId) = ledger[goalId]
    /\ contribs \in {dbContribs, << >>}
    /\ \A goalId \in GoalIds : savedFor(contribs, goalId) = StatedSaved(goalId, contribs)
    /\ (lastOp.kind = "contrib" /\ lastOp.amount = 0) =>
          ~lastOp.inserted /\ ~lastOp.persisted /\ dbContribs = lastOp.storedBefore
    /\ (lastOp.kind = "contrib" /\ lastOp.inserted) =>
          /\ Len(dbContribs) = Len(lastOp.storedBefore) + 1
          /\ savedFor(dbContribs, lastOp.goal) =
                savedFor(lastOp.storedBefore, lastOp.goal)
                  + (IF lastOp.sign = 1 THEN lastOp.amount ELSE -lastOp.amount)

\* a deposit and a withdrawal were saved for the same goal
C7_Witness ==
    /\ Len(dbContribs) = 2
    /\ dbContribs[1].goal_id = dbContribs[2].goal_id
    /\ \E i \in 1..2 : dbContribs[i].amount > 0
    /\ \E i \in 1..2 : dbContribs[i].amount < 0
    /\ lastOp.kind = "contrib" /\ lastOp.sign = -1 /\ lastOp.amount > 0 /\ lastOp.inserted
    /\ contribs = dbContribs

\* ---------------------------------------------------------------- transactions
RECURSIVE Charged(_, _)
Charged(list, a) ==
    IF list = << >> THEN 0
    ELSE (IF Head(list).account_id = a THEN Head(list).amount ELSE 0) + Charged(Tail(list), a)

HasSnap(a) == \E i \in 1..Len(snaps) : snaps[i][1] = a
LastSnap(a) ==
    LET idx == {i \in 1..Len(snaps) : snaps[i][1] = a}
    IN  snaps[CHOOSE i \in idx : \A j \in idx : j <= i][2]

\* C8: every operation that changes a stored balance also inserts a snapshot with
\* the new balance: after a handler whose writes all succeeded, the most recent
\* snapshot of every account equals its stored balance.
C8_SnapshotFollowsBalance ==
    (txLast.kind # "none" /\ txLast.ok) =>
        \A a \in Acct : HasSnap(a) /\ LastSnap(a) = dbBalance[a]

\* C9: an account's balance is a running balance of its expenses: after the Add
\* Expense form or a CSV import has inserted expense rows (and its writes
\* succeeded), the stored balance of every account is lower by the amounts of the
\* inserted rows charged to it.
C9_InsertedExpenseReducesBalance ==
    (txLast.kind \in {"add", "import"} /\ txLast.ok /\ txLast.rows # << >>) =>
        \A a \in Acct : dbBalance[a] = txLast.balBefore[a] - Charged(txLast.rows, a)

\* C10: after a bulk delete whose writes succeeded, the stored and the local
\* balance of every account are higher by the sum of the amounts of the deleted
\* expenses charged to that account.
C10_BulkDeleteCreditsAll ==
    (txLast.kind = "bulk" /\ txLast.ok) =>
        \A a \in Acct :
            /\ dbBalance[a] = txLast.balBefore[a] + Charged(txLast.rows, a)
            /\ txAccounts[a] = txLast.localBefore[a] + Charged(txLast.rows, a)

\* ---------------------------------------------------------------- recurring
Finished(i) == mp[i].pc = "done" /\ mp[i].allOk

\* C11: a Mark paid with account A whose writes were all applied charged the
\* instance's actual_amount if it is set and the template's amount otherwise; it
\* wrote A's balance as the view's balance of A less that amount, a snapshot with
\* that balance and an expense of that amount dated at the instance's date were
\* inserted, and the instance is paid; when no other Mark paid ran meanwhile, A's
\* stored balance went down by exactly the amount and the instance names A.
C11_MarkPaid ==
    \A i \in MpSlots : Finished(i) =>
        LET c == mp[i]
            stated == IF c.row.actual_amount # Null THEN c.row.actual_amount[1]
                      ELSE dbRecurrings[c.row.recurring_id].amount
        IN  /\ c.amt = stated
            /\ c.newBalance + stated = c.dbBefore
            /\ \E k \in (Len(InitialSnaps) + 1)..Len(snaps) : snaps[k] = <<c.acct, c.dbBefore - stated>>
            /\ \E k \in 1..Len(paidExpenses) :
                  /\ paidExpenses[k].pay = c.pay
                  /\ paidExpenses[k].amount = stated
                  /\ paidExpenses[k].date = dbPayments[c.pay].date
                  /\ paidExpenses[k].account_id = c.acct
            /\ dbPayments[c.pay].is_paid /\ payments[c.pay].is_paid
            /\ ~c.overlap =>
                  /\ c.dbAfter = c.dbBefore - stated
                  /\ dbPayments[c.pay].account_id = c.acct
                  /\ payments[c.pay].account_id = c.acct

\* two instances were paid one after the other, one charged at the template's
\* amount and one at its actual amount
C11_Witness ==
    \E i \in MpSlots, j \in MpSlots :
        /\ Finished(i) /\ Finished(j) /\ ~mp[i].overlap /\ ~mp[j].overlap
        /\ mp[i].row.actual_amount = Null /\ mp[i].amt > 0
        /\ mp[j].row.actual_amount # Null
        /\ mp[j].amt # dbRecurrings[mp[j].row.recurring_id].amount

Rows(a) == {i \in 1..Len(cfSnaps) : cfSnaps[i].account_id = a /\ InRange(cfSnaps[i].recorded_at)}
Earlier(a, i) == {j \in Rows(a) : j < i}
Before(a, i) == CHOOSE j \in Earlier(a, i) : \A k \in Earlier(a, i) : k <= j
Delta(a, i) == cfSnaps[i].balance - cfSnaps[Before(a, i)].balance
PeriodOfRow(i) == fmtPeriod(LocalDay(cfSnaps[i].recorded_at), cfGroupBy)
Rate(a) == toBase(1, AcctCurrency(a))

RECURSIVE Plus(_, _)
Plus(S, f) == IF S = {} THEN 0 ELSE LET x == CHOOSE y \in S : TRUE IN f[x] + Plus(S \ {x}, f)

\* the consecutive pairs of account a, by the position of the later row: the
\* period of the later row and the delta
Pairs(a) ==
    LET later == {i \in Rows(a) : Earlier(a, i) # {}}
    IN  [i \in later |-> [key |-> PeriodOfRow(i), delta |-> Delta(a, i)]]

\* the deltas among pairs that fall in period key, with the given sign, at rate
StatedFlow(pairs, rate, key, positive) ==
    LET hit == {i \in DOMAIN pairs : pairs[i].key = key /\ ((pairs[i].delta >= 0) = positive)}
    IN  Plus(hit, [i \in hit |-> Abs(pairs[i].delta) * rate])

LastMinusFirst(a) ==
    IF Rows(a) = {} THEN 0
    ELSE LET first == CHOOSE i \in Rows(a) : \A j \in Rows(a) : i <= j
             last == CHOOSE i \in Rows(a) : \A j \in Rows(a) : j <= i
         IN  (cfSnaps[last].balance - cfSnaps[first].balance) * Rate(a)

\* C13: in the snapshot method every pair of consecutive in-range snapshots of an
\* account adds its delta to the inflow (delta >= 0) or its absolute value to the
\* outflow (delta < 0) of the period of the later snapshot; so for every account
\* inflow minus outflow over the range is its last in-range balance minus its first
\* (in base currency), the totals sum that over the accounts, and every period's
\* net is its inflow minus its outflow.
C13_SnapshotFlows ==
    LET flow == flowByPeriod_snap
        keys == DOMAIN flow
        sum == totals
        pairs == [a \in Acct |-> Pairs(a)]
        rate == [a \in Acct |-> Rate(a)]
        used == UNION {{pairs[a][i].key : i \in DOMAIN pairs[a]} : a \in Acct}
        in == [key \in used |-> [a \in Acct |-> StatedFlow(pairs[a], rate[a], key, TRUE)]]
        out == [key \in used |-> [a \in Acct |-> StatedFlow(pairs[a], rate[a], key, FALSE)]]
    IN  /\ used \subseteq keys
        /\ \A key \in keys :
              /\ key \in used =>
                    /\ flow[key].inflow = Plus(Acct, in[key])
                    /\ flow[key].outflow = Plus(Acct, out[key])
              /\ key \notin used => flow[key].inflow = 0 /\ flow[key].outflow = 0
              /\ flow[key].net = flow[key].inflow - flow[key].outflow
        /\ \A a \in Acct :
              Plus(used, [key \in used |-> in[key][a] - out[key][a]]) = LastMinusFirst(a)
        /\ sum.inflow - sum.outflow = Plus(Acct, [a \in Acct |-> LastMinusFirst(a)])
        /\ sum.net = sum.inflow - sum.outflow

\* one account has three in-range snapshots, rising and then falling, whose two
\* deltas land in different periods, read west of Greenwich
C13_Witness ==
    /\ cfZone = "west"
    /\ \E a \in Acct :
          /\ Len(byAcc(a)) = 3
          /\ LastMinusFirst(a) = 0
          /\ LET flow == flowByPeriod_snap IN
             \E k1 \in DOMAIN flow, k2 \in DOMAIN flow :
                k1 # k2 /\ flow[k1].inflow > 0 /\ flow[k2].outflow > 0

\* ---------------------------------------------------------------- C14
\* what the displayed month's expenses spend against the line bi: those of the
\* line's category whose account has the line's currency (USD for an expense
\* without account) and, when the line names an account, that are of that account
ScopedExpenses(bi) ==
    {e \in ExpensesOfMonth(bgMonth) :
        /\ e.category_id = bi.category_id
        /\ (IF e.account_id = Null THEN "USD" ELSE BudgetCurrency(e.account_id[1])) = bi.currency
        /\ bi.account_id # Null => e.account_id = bi.account_id}

\* C14: once the month is loaded, the Actual of every budget line is the sum of
\* the displayed month's expenses of the line's category whose account has the
\* line's currency, and of the line's account only when the line names one
C14_ActualScoped ==
    (~bgLoading /\ bgAccounts = BudgetAcct /\ bgExpenses = ExpensesOfMonth(bgMonth)) =>
        \A i \in DOMAIN budgetItems :
            LET scoped == ScopedExpenses(budgetItems[i])
            IN  budgetRows[i].actual = SumOver(scoped, [e \in scoped |-> e.amount])

\* ---------------------------------------------------------------- C15
Positions(kind) == {i \in 1..Len(wlog) : wlog[i][1] = kind}

\* C15 as stated: the writes of a finished Quick Transfer are the deduction of
\* the source, then the credit of the destination, then the snapshot inserts
C15_SnapshotsLast ==
    xfer.pc = "done" =>
        /\ \A i \in Positions("update"), j \in Positions("snapshot") : i < j
        /\ \A i, j \in Positions("update") :
              (wlog[i][2] = xfer.from /\ wlog[j][2] = xfer.to) => i < j

\* C15 amended: the writes of a finished Quick Transfer are the deduction of the
\* source, the snapshot of the source when the deduction was applied, the credit
\* of the destination, and the snapshot of the destination when the credit was
\* applied, in this order
C15_WritesInOrder ==
    xfer.pc = "done" =>
        LET nf == xfer.fromBal - xfer.amt
            nt == xfer.toBal + xfer.amt
        IN  wlog = << <<"update", xfer.from, nf>> >>
                   \o (IF xfer.debitOk THEN << <<"snapshot", xfer.from, nf>> >> ELSE << >>)
                   \o << <<"update", xfer.to, nt>> >>
                   \o (IF xfer.creditOk THEN << <<"snapshot", xfer.to, nt>> >> ELSE << >>)

\* a finished transfer that issued all four writes
C15_Witness ==
    /\ xfer.pc = "done"
    /\ Len(wlog) = 4
    /\ wlog[2][1] = "snapshot" /\ wlog[3][1] = "update"

\* ---------------------------------------------------------------- C16
\* C16: a step of saveGoal, closeGoal or saveContrib whose backend write is
\* rejected issues that one call and no other, displays one alert, the backend's
\* message, leaves the stored rows, the local goals and contributions and the
\* closed marks as they were, and leaves the modal it was started from open
C16_FailedWriteOnlyAlerts ==
    [][(nFormOps' = nFormOps + 1 /\ formLast'.outcome = "failed") =>
          /\ Len(goalCalls') = 1
          /\ goalCalls'[1][1] \in {"insert", "update"}
          /\ goalAlerts' = <<"error.message">>
          /\ goals' = goals /\ contribs' = contribs /\ closedGoals' = closedGoals
          /\ dbGoals' = dbGoals /\ dbContribs' = dbContribs /\ dbClosedGoals' = dbClosedGoals
          /\ showGoalModal' = showGoalModal /\ showContribModal' = showContribModal
          /\ formLast'.kind \in {"saveGoal", "saveContrib"} =>
                (showGoalModal' \/ showContribModal')]_vars

\* a rejected contribution insert after a goal was saved: the contribution modal
\* is still open
C16_Witness ==
    /\ formLast = [kind |-> "saveContrib", outcome |-> "failed"]
    /\ showContribModal
    /\ nFormOps = 2
    /\ NewGoalId \in DOMAIN goals

\* ---------------------------------------------------------------- C17
\* C17: the selected page starts as Dashboard and is always one of the ten page
\* names; while the app is shown exactly the view it names is rendered and the
\* sidebar highlights it; a click on a sidebar item makes that item the selected
\* page; and the sidebar, given a valid page and a setter, never uses its
\* internal selection
C17_ViewSwitching ==
    /\ selected = "Dashboard"
    /\ [](/\ selected \in Pages
          /\ Cardinality(Pages) = 10
          /\ SidebarShown => (Rendered = {selected} /\ currentSelected = selected)
          /\ internalSelected = "Dashboard")
    /\ [][\A name \in Pages : clickItem(name) => selected' = name]_vars

\* a page other than Dashboard was clicked and its view is on screen
C17_Witness ==
    /\ SidebarShown
    /\ selected = "Goals"
    /\ Rendered = {"Goals"}

\* ---------------------------------------------------------------- C18
\* the positions a markPaid call passes through, in order
MpOrder == {<<"idle", "deduct">>, <<"deduct", "snapshot">>, <<"deduct", "done">>,
            <<"snapshot", "expense">>, <<"expense", "flag">>, <<"flag", "done">>}
PaidFlags(ps) == [p \in PayIds |-> <<ps[p].is_paid, ps[p].account_id>>]

\* C18: every markPaid call issues its writes in the order balance, snapshot,
\* expense, paid flag, each write being made by the call's step of that name; a
\* call whose balance update is rejected ends there, having changed no stored
\* balance, snapshot, expense or paid flag and no local account or payment, and
\* a call that has ended writes nothing more; so a paid instance has a call that
\* went through all four steps
C18_MarkPaidOrder ==
    /\ [][\A i \in MpSlots :
            /\ mp'[i].pc # mp[i].pc => <<mp[i].pc, mp'[i].pc>> \in MpOrder
            /\ (mp[i].pc = "deduct" /\ mp'[i].pc = "done") =>
                  /\ dbBalance' = dbBalance /\ snaps' = snaps
                  /\ paidExpenses' = paidExpenses /\ dbPayments' = dbPayments
                  /\ recAccounts' = recAccounts /\ payments' = payments
            /\ mp[i].pc = "done" => mp'[i] = mp[i]]_vars
    /\ [][/\ (dbBalance' # dbBalance \/ recAccounts' # recAccounts) =>
                \E j \in MpSlots : mp[j].pc = "deduct" /\ mp'[j].pc = "snapshot"
          /\ snaps' # snaps =>
                \E j \in MpSlots : mp[j].pc = "snapshot" /\ mp'[j].pc = "expense"
          /\ paidExpenses' # paidExpenses =>
                \E j \in MpSlots : mp[j].pc = "expense" /\ mp'[j].pc = "flag"
          /\ (PaidFlags(dbPayments') # PaidFlags(dbPayments)
                \/ PaidFlags(payments') # PaidFlags(payments)) =>
                \E j \in MpSlots : mp[j].pc = "flag" /\ mp'[j].pc = "done"]_vars
    /\ [](\A p \in PayIds : (dbPayments[p].is_paid \/ payments[p].is_paid) =>
            \E j \in MpSlots : mp[j].pay = p /\ mp[j].pc = "done"
                                /\ mp[j].dbAfter = mp[j].newBalance)

\* one Mark paid was rejected at the balance update and left everything as it
\* was; a later one went through all four writes
C18_Witness ==
    \E i \in MpSlots, j \in MpSlots :
        /\ mp[i].pc = "done" /\ ~mp[i].allOk /\ mp[i].amt > 0
        /\ mp[i].dbAfter = mp[i].dbBefore
        /\ Finished(j) /\ mp[j].amt > 0 /\ i < j
        /\ Len(snaps) = Len(InitialSnaps) + 1 /\ Len(paidExpenses) = 1

\* ---------------------------------------------------------------- C19
\* the calls made so far for instance p, and the largest amount one of them charged
CallsFor(p) == {i \in MpSlots : mp[i].pc # "idle" /\ mp[i].pay = p}
LargestCharge(p) ==
    IF CallsFor(p) = {} THEN 0
    ELSE LET i == CHOOSE k \in CallsFor(p) : \A j \in CallsFor(p) : mp[j].amt <= mp[k].amt
         IN  mp[i].amt
\* what has left the stored balances since the view was loaded
TotalDeducted == SumOver(Acct, [a \in Acct |-> InitBal[a] - dbBalance[a]])

\* C19: when every Mark paid made so far was for the same instance, what has been
\* deducted from the account balances is at most that instance's amount
C19_ChargedAtMostOnce ==
    \A p \in PayIds :
        (\A i \in MpSlots : mp[i].pc # "idle" => mp[i].pay = p) =>
            TotalDeducted <= LargestCharge(p)

\* ---------------------------------------------------------------- C20
\* C20: a finished Quick Transfer whose source update was rejected has changed no
\* stored balance and inserted no snapshot
C20_NoCreditWithoutDebit ==
    (xfer.pc = "done" /\ ~xfer.debitOk) =>
        /\ dbBalance[xfer.from] = xfer.fromBefore
        /\ dbBalance[xfer.to] = xfer.toBefore
        /\ Len(snaps) = xfer.snapsAt


\* C21: a click on Delete in a rendered row of the expenses table, when the delete
\* is applied, removes exactly the expense that row displays from the stored and
\* from the local expenses and credits that expense's account by its amount, in
\* every displayed month and with every search text.
C21_DeletesDisplayedRow ==
    [][\A idx \in 1..Len(tableRows), okUpdate \in BOOLEAN :
          deleteExpense(idx, TRUE, okUpdate) =>
              LET shown == tableRows[idx] IN
              /\ dbExpenses' = dbExpenses \ {shown}
              /\ Ids(data') = Ids(data) \ {shown.id}
              /\ txAccounts' = [txAccounts EXCEPT ![shown.account_id] = @ + shown.amount]]_vars


\* the last Transactions handler was a delete that removed txLast.rows and whose
\* writes succeeded, and every Undo click of the behaviour came after it
UndoFollowsDelete ==
    /\ txLast.kind \in {"delete", "bulk"} /\ txLast.ok /\ txLast.rows # << >>
    /\ undoCalls # << >>
    /\ \A i \in 1..Len(undoCalls) :
          /\ undoCalls[i].after = nTxOps
          /\ UndoDone(undoCalls[i]) /\ undoCalls[i].ok

\* C22: after a single or bulk delete followed by one Undo whose writes all
\* succeeded, every deleted expense is again in the stored and in the local
\* expenses and the stored and the local balance of every account are what they
\* were before the delete.
C22_DeleteUndoRoundTrip ==
    (UndoFollowsDelete /\ Len(undoCalls) = 1) =>
        /\ SeqRange(txLast.rows) \subseteq dbExpenses
        /\ SeqRange(txLast.rows) \subseteq SeqRange(data)
        /\ dbBalance = txLast.balBefore
        /\ txAccounts = txLast.localBefore

\* the balances one undoDelete call leaves when it runs alone after the delete
AfterDelete(closure, acc) == LoopBalances(txLast.rows, closure, acc, 1)
AfterOneUndo(acc) ==
    LoopBalances(txLast.rows, AfterDelete(txLast.localBefore, txLast.localBefore),
                 AfterDelete(txLast.localBefore, acc), -1)

\* C23: however many times Undo is clicked for one delete, also while an earlier
\* undo is still running, once every undo has completed the deleted expenses are
\* stored again and the stored and the local balance of every account are what a
\* single undo leaves: the expense amounts are taken off once.
C23_UndoAtMostOnce ==
    UndoFollowsDelete =>
        /\ SeqRange(txLast.rows) \subseteq dbExpenses
        /\ dbBalance = AfterOneUndo(txLast.balBefore)
        /\ txAccounts = AfterOneUndo(txLast.localBefore)


\* a CSV row the import is said to take: description, category and account not
\* empty, a date that parses, a numeric amount, and an account name that is the
\* name of an existing account up to case
Importable(row) ==
    /\ row.description # "" /\ row.category # "" /\ row.account # ""
    /\ row.dateOk /\ row.amountOk
    /\ \E a \in Acct : Lower(AcctName(a)) = Lower(row.account)
ImportableRows(file) == SelectSeq(file, Importable)
NewNames(file, cats) ==
    {Lower(file[i].category) : i \in {j \in 1..Len(file) : Importable(file[j])}}
        \ {Lower(c) : c \in cats}

\* C24: an import whose writes succeed stores one expense per importable row of
\* the file, in order, with that row's amount and matched account, and no other;
\* the categories it creates are the distinct names (up to case) of the
\* importable rows' categories that did not exist before, each once; the rows
\* that are not imported cause no write.
C24_ImportExactlyValidRows ==
    [][\A file \in CsvFiles :
          importCSV(file, TRUE, TRUE) =>
              LET want == ImportableRows(file)
                  made == dbCategories' \ dbCategories
              IN  /\ Cardinality(dbExpenses' \ dbExpenses) = Len(want)
                  /\ Len(data') = Len(data) + Len(want)
                  /\ \A k \in 1..Len(want) :
                        /\ data'[Len(data) + k].amount = want[k].amount
                        /\ Lower(AcctName(data'[Len(data) + k].account_id))
                              = Lower(want[k].account)
                  /\ {Lower(c) : c \in made} = NewNames(file, dbCategories)
                  /\ Cardinality(made) = Cardinality(NewNames(file, dbCategories))]_vars


\* the calendar month after and before the month m of year y
NextCalendarMonth(y, m) == IF m = 11 THEN <<y + 1, 0>> ELSE <<y, m + 1>>
PrevCalendarMonth(y, m) == IF m = 0 THEN <<y - 1, 11>> ELSE <<y, m - 1>>

\* C25: in the Transactions, Dashboard, Recurring and Budget views the next
\* button moves the displayed (year, month) to the next calendar month and the
\* previous button to the previous one, the year changing between December and
\* January, and the month index stays within 0..11.
C25_MonthButtons ==
    [][/\ changeMonth(1) => <<txYear', txMonth'>> = NextCalendarMonth(txYear, txMonth)
       /\ changeMonth(-1) => <<txYear', txMonth'>> = PrevCalendarMonth(txYear, txMonth)
       /\ dashNextMonth => <<dashYear', dashMonth'>> = NextCalendarMonth(dashYear, dashMonth)
       /\ dashPrevMonth => <<dashYear', dashMonth'>> = PrevCalendarMonth(dashYear, dashMonth)
       /\ nextMonth => <<recYear', recMonth'>> = NextCalendarMonth(recYear, recMonth)
       /\ prevMonth => <<recYear', recMonth'>> = PrevCalendarMonth(recYear, recMonth)
       /\ budgetNextMonth => <<bgYear', bgMonth'>> = NextCalendarMonth(bgYear, bgMonth)
       /\ budgetPrevMonth => <<bgYear', bgMonth'>> = PrevCalendarMonth(bgYear, bgMonth)
       /\ {txMonth', dashMonth', recMonth', bgMonth'} \subseteq 0..11]_vars


\* C26: when Apply rebalance of a goal has just persisted a value and it is
\* pressed again for the same goal with no other handler in between (so no
\* contribution was added), the second press persists the same
\* monthly_contribution as the first.
C26_ApplyRebalanceIdempotent ==
    [][\A goalId \in GoalIds :
          (/\ lastOp.kind = "apply" /\ lastOp.goal = goalId /\ lastOp.persisted
           /\ ApplyRebalance(goalId, TRUE)) =>
              /\ lastOp'.sent = lastOp.sent
              /\ dbGoals'[goalId].monthly_contribution = dbGoals[goalId].monthly_contribution]_vars

====
